---- MODULE Spec2Model ----
(***************************************************************************)
(* Streaming relay of sona-router: OllamaProvider.stream and               *)
(* LMStudioProvider.stream (the two bodies are the same from the upstream  *)
(* response callback on).  One relay session is modelled: the closure      *)
(* variables of the response callback are the state, the 'data', 'end' and *)
(* 'error' listeners of the upstream response are the actions.             *)
(*                                                                         *)
(* Text is a sequence of characters.  A JSON document on the wire is       *)
(* written  { body }  : the characters "{" and "}" around a body that is   *)
(* either the token "content:" followed by the characters of the content   *)
(* string, or the token "args1:" followed by the characters of an argument *)
(* fragment for tool-call slot 1, or one token naming a document of the    *)
(* catalog Body.  Bytes are the characters themselves, except the two      *)
(* bytes 0xC3 0xA9 that encode the one character U+00E9.                   *)
(***************************************************************************)
EXTENDS Integers, Sequences, FiniteSets, TLC

\* ------------------------------------------------------------------ bounds
MaxChunks == 3          \* 'data' events of one session

\* ------------------------------------------------------- sequence helpers
Last(s) == s[Len(s)]
Front(s) == SubSeq(s, 1, Len(s) - 1)

RECURSIVE Flatten(_)
Flatten(ss) == IF ss = <<>> THEN <<>> ELSE Head(ss) \o Flatten(Tail(ss))

\* ------------------------------------------------------------ wire format
NL == "\n"
DataPrefix == <<"d", "a", "t", "a", ":", " ">>
DoneSentinel == <<"[", "DONE", "]">>

\* chunk.toString(): UTF-8 decoding of one Buffer on its own.  The byte 0xC3
\* followed by 0xA9 decodes to U+00E9; a 0xC3 that the buffer (or another
\* byte) cuts off from its continuation, and a 0xA9 without its lead byte,
\* decode to U+FFFD
BufferToString(b) ==
    LET Decoded(i) ==
            IF b[i] = "0xC3"
            THEN IF i < Len(b) /\ b[i + 1] = "0xA9" THEN "U+00E9" ELSE "U+FFFD"
            ELSE IF b[i] = "0xA9"
                 THEN IF i > 1 /\ b[i - 1] = "0xC3" THEN "" ELSE "U+FFFD"
                 ELSE b[i]
    IN  SelectSeq([i \in 1..Len(b) |-> Decoded(i)], LAMBDA c : c # "")

\* the bytes of a text (UTF-8 encoding)
RECURSIVE Utf8(_)
Utf8(t) ==
    IF t = <<>> THEN <<>>
    ELSE IF t[1] = "U+00E9" THEN <<"0xC3", "0xA9">> \o Utf8(Tail(t))
         ELSE <<t[1]>> \o Utf8(Tail(t))

\* String.prototype.split('\n'): always at least one element
RECURSIVE SplitNL(_)
SplitNL(str) ==
    IF \A i \in 1..Len(str) : str[i] # NL THEN <<str>>
    ELSE LET i == CHOOSE k \in 1..Len(str) :
                      str[k] = NL /\ \A j \in 1..(k - 1) : str[j] # NL
         IN  <<SubSeq(str, 1, i - 1)>> \o SplitNL(SubSeq(str, i + 1, Len(str)))

StartsWithData(line) ==
    Len(line) >= Len(DataPrefix) /\ SubSeq(line, 1, Len(DataPrefix)) = DataPrefix

Slice6(line) == SubSeq(line, Len(DataPrefix) + 1, Len(line))

\* --------------------------------------------------- backend stream chunks
\* one entry of delta.tool_calls; isNull: the entry is null, so that reading
\* its index throws; id, name "" and arguments <<>> stand for absent fields
TcDelta(i, id, name, args) ==
    [isNull |-> FALSE, index |-> i, id |-> id, name |-> name, arguments |-> args]
NullTcDelta ==
    [isNull |-> TRUE, index |-> 0, id |-> "", name |-> "", arguments |-> <<>>]

\* a parsed OpenAIStreamChunk.  hasChoices: parsed.choices is an array (reading
\* choices[0] throws otherwise); hasChoice: choices[0] exists; content <<>>:
\* no content, or '' (both falsy); finish "null": no finish reason;
\* prompt_tokens 0: no usage, or a zero count
Chunk(content, tcs, finish, prompt) ==
    [hasChoices |-> TRUE, hasChoice |-> TRUE, content |-> content,
     tool_calls |-> tcs, finish_reason |-> finish, prompt_tokens |-> prompt]
NoChoices ==
    [hasChoices |-> FALSE, hasChoice |-> FALSE, content |-> <<>>,
     tool_calls |-> <<>>, finish_reason |-> "null", prompt_tokens |-> 0]
EmptyChoices(prompt) ==
    [hasChoices |-> TRUE, hasChoice |-> FALSE, content |-> <<>>,
     tool_calls |-> <<>>, finish_reason |-> "null", prompt_tokens |-> prompt]

\* the catalog of JSON bodies other than plain content fragments
Body ==
    [ tc1_open   |-> Chunk(<<>>, <<TcDelta(1, "call_1", "get_weather", <<"{\"q\":">>)>>, "null", 0),
      tc1_more   |-> Chunk(<<>>, <<TcDelta(1, "", "", <<"\"x\"}">>)>>, "null", 0),
      tc0_noargs |-> Chunk(<<>>, <<TcDelta(0, "", "list_files", <<>>)>>, "null", 0),
      tc0_args   |-> Chunk(<<>>, <<TcDelta(0, "call_0", "", <<"{}">>)>>, "null", 0),
      tc_two     |-> Chunk(<<>>, <<TcDelta(1, "", "", <<"[1]">>),
                                   TcDelta(0, "", "", <<"[0]">>)>>, "null", 0),
      tc_null    |-> Chunk(<<>>, <<NullTcDelta>>, "null", 0),
      text_throw |-> Chunk(<<"H">>, <<NullTcDelta>>, "stop", 0),
      fin_stop   |-> Chunk(<<>>, <<>>, "stop", 0),
      fin_tools  |-> Chunk(<<>>, <<>>, "tool_calls", 0),
      fin_length |-> Chunk(<<>>, <<>>, "length", 7),
      fin_filter |-> Chunk(<<>>, <<>>, "content_filter", 0),
      fin_other  |-> Chunk(<<>>, <<>>, "eos", 0),
      no_choices |-> NoChoices,
      usage_only |-> EmptyChoices(5) ]

BodyNames == DOMAIN Body
TextChars == {"H", "i", "U+00E9", "U+FFFD"}

ThrowsParse == [throws |-> TRUE, value |-> NoChoices]

\* JSON.parse(data)
JSONParse(data) ==
    IF Len(data) < 2 \/ data[1] # "{" \/ data[Len(data)] # "}" THEN ThrowsParse
    ELSE LET inner == SubSeq(data, 2, Len(data) - 1) IN
         IF Len(inner) >= 1 /\ inner[1] = "content:"
              /\ \A i \in 2..Len(inner) : inner[i] \in TextChars
         THEN [throws |-> FALSE, value |-> Chunk(Tail(inner), <<>>, "null", 0)]
         ELSE IF Len(inner) >= 1 /\ inner[1] = "args1:"
                   /\ \A i \in 2..Len(inner) : inner[i] \in TextChars
              THEN [throws |-> FALSE,
                    value |-> Chunk(<<>>, <<TcDelta(1, "", "", Tail(inner))>>,
                                    "null", 0)]
              ELSE IF Len(inner) = 1 /\ inner[1] \in BodyNames
                   THEN [throws |-> FALSE, value |-> Body[inner[1]]]
                   ELSE ThrowsParse

\* the wire bytes of one line
DataLine(payload) == DataPrefix \o Utf8(payload) \o <<NL>>
JsonText(name) == <<"{", name, "}">>
ContentText(t) == <<"{", "content:">> \o t \o <<"}">>
ArgsText(t) == <<"{", "args1:">> \o t \o <<"}">>

\* ------------------------------------------------------------ client events
\* request.model, the name the client asked for; no backend model has it
RequestModel == "claude-3-opus"

\* one res.write of the relay; fields that an event does not carry hold
\* -1, "" or <<>>
Event(type, index, block, id, name, delta, payload, stop, out) ==
    [type |-> type, index |-> index, block |-> block, id |-> id, name |-> name,
     delta |-> delta, payload |-> payload, stop_reason |-> stop,
     input_tokens |-> IF type = "message_start" THEN 0 ELSE -1,
     model |-> IF type = "message_start" THEN RequestModel ELSE "",
     output_tokens |-> out]

MessageStart == Event("message_start", -1, "", "", "", "", <<>>, "", 0)
TextBlockStart(i) == Event("content_block_start", i, "text", "", "", "", <<>>, "", -1)
TextDelta(i, text) == Event("content_block_delta", i, "", "", "", "text_delta", text, "", -1)
ToolBlockStart(i, tc) ==
    Event("content_block_start", i, "tool_use", tc.id, tc.name, "", <<>>, "", -1)
InputJsonDelta(i, tc) ==
    Event("content_block_delta", i, "", "", "", "input_json_delta", tc.arguments, "", -1)
BlockStop(i) == Event("content_block_stop", i, "", "", "", "", <<>>, "", -1)
MessageDelta(stop, out) == Event("message_delta", -1, "", "", "", "", <<>>, stop, out)
MessageStop == Event("message_stop", -1, "", "", "", "", <<>>, "", -1)

\* ------------------------------------------------------------ relay session
\* BaseProvider.mapFinishReason
\* a finish reason the table does not know handed to the client as it is
mapFinishReason_PassThrough(reason) ==
    CASE reason = "stop" -> "end_turn"
      [] reason = "length" -> "max_tokens"
      [] reason = "content_filter" -> "stop_sequence"
      [] reason = "tool_calls" -> "tool_use"
      [] OTHER -> reason

mapFinishReason(reason) ==
    CASE reason = "stop" -> "end_turn"
      [] reason = "length" -> "max_tokens"
      [] reason = "content_filter" -> "stop_sequence"
      [] reason = "tool_calls" -> "tool_use"
      [] OTHER -> "end_turn"

\* `toolu_${Date.now()}_${tcIndex}`
GeneratedId(tcIndex) ==
    CASE tcIndex = 0 -> "toolu_now_0"
      [] tcIndex = 1 -> "toolu_now_1"
      [] OTHER -> "toolu_now_n"

\* the closure variables of the upstream response callback, after the
\* message_start write.  toolCalls is the Map, as the sequence of its entries
\* in insertion order (the order a Map iterates in)
NewSession ==
    [buffer |-> <<>>, hasStartedTextBlock |-> FALSE, currentBlockIndex |-> 0,
     finishReason |-> "end_turn", toolCalls |-> <<>>, hasToolCalls |-> FALSE,
     inputTokens |-> 0, outputTokens |-> 0, written |-> <<MessageStart>>]

HasSlot(toolCalls, k) == \E i \in 1..Len(toolCalls) : toolCalls[i].key = k
SlotPos(toolCalls, k) == CHOOSE i \in 1..Len(toolCalls) : toolCalls[i].key = k

\* MergeToolCallDelta with `tc.arguments = ...` in place of `tc.arguments += ...`
MergeToolCallDelta_Overwrite(toolCalls, d) ==
    LET withSlot ==
            IF HasSlot(toolCalls, d.index) THEN toolCalls
            ELSE Append(toolCalls,
                        [key |-> d.index,
                         id |-> IF d.id # "" THEN d.id ELSE GeneratedId(d.index),
                         name |-> d.name,
                         arguments |-> <<>>])
        p == SlotPos(withSlot, d.index)
        tc == withSlot[p]
    IN  [withSlot EXCEPT ![p] =
            [key |-> tc.key,
             id |-> IF d.id # "" THEN d.id ELSE tc.id,
             name |-> IF d.name # "" THEN d.name ELSE tc.name,
             arguments |-> IF d.arguments # <<>> THEN d.arguments ELSE tc.arguments]]

\* the body of `for (const toolCallDelta of deltaToolCalls)` for one entry
MergeToolCallDelta(toolCalls, d) ==
    LET withSlot ==
            IF HasSlot(toolCalls, d.index) THEN toolCalls
            ELSE Append(toolCalls,
                        [key |-> d.index,
                         id |-> IF d.id # "" THEN d.id ELSE GeneratedId(d.index),
                         name |-> d.name,
                         arguments |-> <<>>])
        p == SlotPos(withSlot, d.index)
        tc == withSlot[p]
    IN  [withSlot EXCEPT ![p] =
            [key |-> tc.key,
             id |-> IF d.id # "" THEN d.id ELSE tc.id,
             name |-> IF d.name # "" THEN d.name ELSE tc.name,
             arguments |-> tc.arguments \o d.arguments]]

\* the for loop over deltaToolCalls; a null entry throws and leaves the
\* entries before it merged
RECURSIVE MergeToolCallDeltas(_, _)
MergeToolCallDeltas(toolCalls, deltas) ==
    IF deltas = <<>> THEN [toolCalls |-> toolCalls, threw |-> FALSE]
    ELSE IF Head(deltas).isNull THEN [toolCalls |-> toolCalls, threw |-> TRUE]
         ELSE MergeToolCallDeltas(MergeToolCallDelta(toolCalls, Head(deltas)),
                                  Tail(deltas))

\* HandleText with `outputTokens++` moved into the `!hasStartedTextBlock` branch
HandleText_CountsBlocks(s, content) ==
    IF content = <<>> THEN s
    ELSE [s EXCEPT
            !.hasStartedTextBlock = TRUE,
            !.outputTokens = IF s.hasStartedTextBlock THEN @ ELSE @ + 1,
            !.written = @ \o (IF s.hasStartedTextBlock THEN <<>>
                              ELSE <<TextBlockStart(s.currentBlockIndex)>>)
                          \o <<TextDelta(s.currentBlockIndex, content)>>]

\* HandleText without the `!hasStartedTextBlock` test
HandleText_AlwaysStart(s, content) ==
    IF content = <<>> THEN s
    ELSE [s EXCEPT
            !.hasStartedTextBlock = TRUE,
            !.outputTokens = @ + 1,
            !.written = @ \o <<TextBlockStart(s.currentBlockIndex),
                               TextDelta(s.currentBlockIndex, content)>>]

\* HandleText closing the text block and opening another one for the text
\* that follows tool-call deltas
HandleText_NewBlockAfterTools(s, content) ==
    IF content = <<>> THEN s
    ELSE IF s.hasStartedTextBlock /\ s.hasToolCalls
    THEN [s EXCEPT
            !.currentBlockIndex = @ + 1,
            !.outputTokens = @ + 1,
            !.written = @ \o <<BlockStop(s.currentBlockIndex),
                               TextBlockStart(s.currentBlockIndex + 1),
                               TextDelta(s.currentBlockIndex + 1, content)>>]
    ELSE [s EXCEPT
            !.hasStartedTextBlock = TRUE,
            !.outputTokens = @ + 1,
            !.written = @ \o (IF s.hasStartedTextBlock THEN <<>>
                              ELSE <<TextBlockStart(s.currentBlockIndex)>>)
                          \o <<TextDelta(s.currentBlockIndex, content)>>]

\* "Handle text content"
HandleText(s, content) ==
    IF content = <<>> THEN s
    ELSE [s EXCEPT
            !.hasStartedTextBlock = TRUE,
            !.outputTokens = @ + 1,
            !.written = @ \o (IF s.hasStartedTextBlock THEN <<>>
                              ELSE <<TextBlockStart(s.currentBlockIndex)>>)
                          \o <<TextDelta(s.currentBlockIndex, content)>>]

\* HandleFinishAndUsage keeping the first finish reason seen
HandleFinishAndUsage_FirstWins(s, parsed) ==
    [s EXCEPT
       !.finishReason = IF parsed.hasChoice /\ parsed.finish_reason # "null"
                           /\ s.finishReason = "end_turn"
                        THEN mapFinishReason(parsed.finish_reason) ELSE @,
       !.inputTokens = IF parsed.prompt_tokens # 0 THEN parsed.prompt_tokens ELSE @]

\* "Track finish reason" and the usage lines
HandleFinishAndUsage(s, parsed) ==
    [s EXCEPT
       !.finishReason = IF parsed.hasChoice /\ parsed.finish_reason # "null"
                        THEN mapFinishReason(parsed.finish_reason) ELSE @,
       !.inputTokens = IF parsed.prompt_tokens # 0 THEN parsed.prompt_tokens ELSE @]

\* HandleToolCalls with `if (deltaToolCalls)`, without the length test
HandleToolCalls_NoLengthTest(s, deltaToolCalls) ==
    LET m == MergeToolCallDeltas(s.toolCalls, deltaToolCalls)
    IN  [s |-> [s EXCEPT !.hasToolCalls = TRUE, !.toolCalls = m.toolCalls],
         threw |-> m.threw]

\* HandleToolCalls opening a tool_use block as soon as its slot is first seen
HandleToolCalls_Eager(s, deltaToolCalls) ==
    IF Len(deltaToolCalls) > 0
    THEN LET m == MergeToolCallDeltas(s.toolCalls, deltaToolCalls)
         IN  [s |-> [s EXCEPT
                       !.hasToolCalls = TRUE,
                       !.toolCalls = m.toolCalls,
                       !.written = @ \o
                          [i \in 1..(Len(m.toolCalls) - Len(s.toolCalls)) |->
                             ToolBlockStart(s.currentBlockIndex + i,
                                            m.toolCalls[Len(s.toolCalls) + i])]],
              threw |-> m.threw]
    ELSE [s |-> s, threw |-> FALSE]

\* "Handle tool calls"; threw: the loop was left by an exception
HandleToolCalls(s, deltaToolCalls) ==
    IF Len(deltaToolCalls) > 0
    THEN LET m == MergeToolCallDeltas(s.toolCalls, deltaToolCalls)
         IN  [s |-> [s EXCEPT !.hasToolCalls = TRUE, !.toolCalls = m.toolCalls],
              threw |-> m.threw]
    ELSE [s |-> s, threw |-> FALSE]

\* the try block for one decoded chunk; a throw leaves the try block with the
\* effects made so far
HandleParsed(s, parsed) ==
    IF ~parsed.hasChoices THEN s
    ELSE LET s1 == IF parsed.hasChoice THEN HandleText(s, parsed.content) ELSE s
             t == HandleToolCalls(s1, IF parsed.hasChoice THEN parsed.tool_calls
                                      ELSE <<>>)
         IN  IF t.threw THEN t.s ELSE HandleFinishAndUsage(t.s, parsed)

\* the body of `for (const line of lines)`
\* the sentinel taken for the end of the message
ProcessLine_DoneStops(s, line) ==
    IF ~StartsWithData(line) THEN s
    ELSE LET data == Slice6(line) IN
         IF data = DoneSentinel THEN [s EXCEPT !.written = Append(@, MessageStop)]
         ELSE LET r == JSONParse(data) IN
              IF r.throws THEN s ELSE HandleParsed(s, r.value)

ProcessLine(s, line) ==
    IF ~StartsWithData(line) THEN s
    ELSE LET data == Slice6(line) IN
         IF data = DoneSentinel THEN s
         ELSE LET r == JSONParse(data) IN
              IF r.throws THEN s ELSE HandleParsed(s, r.value)

RECURSIVE ProcessLines(_, _)
ProcessLines(s, lines) ==
    IF lines = <<>> THEN s
    ELSE ProcessLines(ProcessLine(s, Head(lines)), Tail(lines))

\* upstream.on('data', ...)
OnData(s, chunk) ==
    LET lines == SplitNL(s.buffer \o BufferToString(chunk))
    IN  ProcessLines([s EXCEPT !.buffer = Last(lines)], Front(lines))

\* ToolUseEvents visiting the slots in numeric order of their keys
RECURSIVE ToolUseEvents_NumericOrder(_, _)
ToolUseEvents_NumericOrder(toolCalls, i) ==
    IF toolCalls = <<>> THEN <<>>
    ELSE LET p == CHOOSE q \in 1..Len(toolCalls) :
                     \A r \in 1..Len(toolCalls) : toolCalls[q].key <= toolCalls[r].key
             tc == toolCalls[p]
             rest == SubSeq(toolCalls, 1, p - 1)
                       \o SubSeq(toolCalls, p + 1, Len(toolCalls))
         IN  <<ToolBlockStart(i, tc)>>
               \o (IF tc.arguments # <<>> THEN <<InputJsonDelta(i, tc)>> ELSE <<>>)
               \o <<BlockStop(i)>>
               \o ToolUseEvents_NumericOrder(rest, i + 1)

\* "Emit tool_use blocks": the events of the loop over the Map, from index i
RECURSIVE ToolUseEvents(_, _)
ToolUseEvents(toolCalls, i) ==
    IF toolCalls = <<>> THEN <<>>
    ELSE LET tc == Head(toolCalls) IN
         <<ToolBlockStart(i, tc)>>
           \o (IF tc.arguments # <<>> THEN <<InputJsonDelta(i, tc)>> ELSE <<>>)
           \o <<BlockStop(i)>>
           \o ToolUseEvents(Tail(toolCalls), i + 1)

\* CloseTextBlock without `currentBlockIndex++`
CloseTextBlock_NoAdvance(s) ==
    IF s.hasStartedTextBlock
    THEN [s EXCEPT !.written = Append(@, BlockStop(s.currentBlockIndex))]
    ELSE s

\* "Close text block if we started one"
CloseTextBlock(s) ==
    IF s.hasStartedTextBlock
    THEN [s EXCEPT !.written = Append(@, BlockStop(s.currentBlockIndex)),
                   !.currentBlockIndex = @ + 1]
    ELSE s

\* "Emit tool_use blocks"
EmitToolUseBlocks(s) ==
    IF s.hasToolCalls
    THEN [s EXCEPT !.written = @ \o ToolUseEvents(s.toolCalls, s.currentBlockIndex),
                   !.currentBlockIndex = @ + Len(s.toolCalls)]
    ELSE s

\* "If no content blocks were created, create an empty text block"
EmitEmptyTextBlock(s) ==
    IF ~s.hasStartedTextBlock /\ ~s.hasToolCalls
    THEN [s EXCEPT !.written = @ \o <<TextBlockStart(0), BlockStop(0)>>]
    ELSE s

\* EmitMessageEnd with the two writes exchanged
EmitMessageEnd_StopFirst(s) ==
    [s EXCEPT !.written = @ \o <<MessageStop,
                                 MessageDelta(s.finishReason, s.outputTokens)>>]

\* EmitMessageEnd with `usage: { input_tokens: inputTokens, output_tokens }`
EmitMessageEnd_SurfacesInput(s) ==
    [s EXCEPT !.written = @ \o
        <<[MessageDelta(s.finishReason, s.outputTokens)
              EXCEPT !.input_tokens = s.inputTokens],
          MessageStop>>]

\* EmitMessageEnd without the message_stop write
EmitMessageEnd_NoStop(s) ==
    [s EXCEPT !.written = @ \o <<MessageDelta(s.finishReason, s.outputTokens)>>]

\* "Send message_delta with final info", "Send message_stop"
EmitMessageEnd(s) ==
    [s EXCEPT !.written = @ \o <<MessageDelta(s.finishReason, s.outputTokens),
                                 MessageStop>>]

\* upstream.on('end', ...), up to res.end()
OnEnd(s) == EmitMessageEnd(EmitEmptyTextBlock(EmitToolUseBlocks(CloseTextBlock(s))))

\* ------------------------------------------------------------ state machine
VARIABLES
    pc,                   \* "invoked", "connecting", "streaming", "done",
                          \* "failed", "caught": where the streaming request
                          \* is; "idle" when no session is followed
    buffer, hasStartedTextBlock, currentBlockIndex, finishReason,
    toolCalls, hasToolCalls, inputTokens, outputTokens,
    written,              \* the res.write calls so far, in order
    resEnded,             \* res.end() was called
    settled,              \* "pending", "resolved", "rejected": the promise of stream()
    received,             \* the chunks the Data action has delivered, in order
    stream,               \* the bytes of a fixed backend stream, <<>> if none
    pending,              \* the bytes of stream not yet delivered
    downstream,           \* the client's connection: "open"; "closed" by the
                          \* client; "broken": a write after that failed;
                          \* "destroyed" by the server's framework or runtime
    errorBody,            \* the handler's catch block sent the 500 error body
    modelLoadAttempted,   \* OllamaProvider.modelLoadAttempted
    modelOverride,        \* BaseProvider.modelOverride, "" when undefined
    providerKind,         \* config.provider: "ollama" or "lmstudio"
    calls,                \* the complete() and stream() calls on the provider
    sessions,             \* the relay sessions open at the same time
    trial                 \* one call of a pure function: its input and result

gatewayVars == <<downstream, errorBody>>
providerVars == <<modelLoadAttempted, modelOverride, providerKind, calls>>
otherVars == <<sessions, trial>>

vars == <<pc, buffer, hasStartedTextBlock, currentBlockIndex, finishReason,
          toolCalls, hasToolCalls, inputTokens, outputTokens, written,
          resEnded, settled, received, stream, pending, downstream, errorBody,
          modelLoadAttempted, modelOverride, providerKind, calls,
          sessions, trial>>

Session ==
    [buffer |-> buffer, hasStartedTextBlock |-> hasStartedTextBlock,
     currentBlockIndex |-> currentBlockIndex, finishReason |-> finishReason,
     toolCalls |-> toolCalls, hasToolCalls |-> hasToolCalls,
     inputTokens |-> inputTokens, outputTokens |-> outputTokens,
     written |-> written]

SetSession(n) ==
    /\ buffer' = n.buffer
    /\ hasStartedTextBlock' = n.hasStartedTextBlock
    /\ currentBlockIndex' = n.currentBlockIndex
    /\ finishReason' = n.finishReason
    /\ toolCalls' = n.toolCalls
    /\ hasToolCalls' = n.hasToolCalls
    /\ inputTokens' = n.inputTokens
    /\ outputTokens' = n.outputTokens
    /\ written' = n.written

\* the res.write calls that lead to session n: a write to a connection the
\* client has closed fails, and nothing listens for the failure
WriteTo(n) ==
    /\ downstream' = IF downstream = "closed" /\ n.written # written
                      THEN "broken" ELSE downstream
    /\ errorBody' = errorBody

\* the lines a backend may send
TextHi == DataLine(ContentText(<<"H", "i">>))
TextE9 == DataLine(ContentText(<<"U+00E9">>))
ArgsE9 == DataLine(ArgsText(<<"U+00E9">>))
TextEmpty == DataLine(ContentText(<<>>))
DoneLine == DataPrefix \o DoneSentinel \o <<NL>>
BadJson == DataLine(<<"{", "content:">>)
BlankLine == <<NL>>
CatalogLine(name) == DataLine(JsonText(name))

Lines ==
    {TextHi, DoneLine, BadJson}
      \cup {CatalogLine(n) : n \in {"tc1_open", "tc1_more", "tc0_noargs", "tc_null",
                                     "text_throw", "fin_tools", "fin_length"}}

\* the position of the byte 0xC3 in TextE9 and in ArgsE9
E9At == Len(DataPrefix) + 3

\* the chunks a 'data' event may carry: one line, several lines, and the two
\* parts of a line cut between the two bytes of U+00E9
Chunks ==
    Lines
      \cup {TextHi \o BlankLine \o CatalogLine("tc_two") \o TextEmpty,
            CatalogLine("tc0_args") \o CatalogLine("usage_only")
              \o CatalogLine("no_choices") \o DoneLine,
            SubSeq(TextE9, 1, E9At), SubSeq(TextE9, E9At + 1, Len(TextE9)),
            SubSeq(ArgsE9, 1, E9At), SubSeq(ArgsE9, E9At + 1, Len(ArgsE9))}

\* ------------------------------------------------- what a session starts with
\* the client is connected and the handler has sent no error body
NoClient ==
    /\ downstream = "open"
    /\ errorBody = FALSE

\* no second session and no function call are followed
NoOthers ==
    /\ sessions = <<>>
    /\ trial = [op |-> "none"]

\* the model names of the routing table; config.model is one of them
Models == {"m1", "m2"}
DefaultModel == "m1"

\* the requests the server handles at the same time
NumCalls == 2
CallIds == 1..NumCalls

\* the words the catch block of complete() looks for in an error message
Markers == {"model", "not found", "404", "ECONNREFUSED"}

\* error messages of the first attempt, each as the set of those words it
\* contains: "fetch failed" or a translation error without any, a 404 answer
\* "model ... not found"
ErrorMessages == {{}, {"model", "not found", "404"}}

\* a request the handler has not received yet.
\*   op: "idle", "complete", "stream"; model: the resolved model of the
\*   request; modelName: getEffectiveModel() as read after the failure;
\*   chatModel: the model field of the body that convertClaudeToOpenAI built;
\*   chats: chat-completions requests sent; first: "none", "ok", "failed":
\*   how the first attempt ended, firstError: its message;
\*   ran: "none", "noop", "started": what the call to ensureModelReady did;
\*   prechecks: requests of the pre-check of stream(), found: "unknown",
\*   "yes", "no": its answer; tags, pulls, warmups:
\*   requests of ensureModelReady to /api/tags, /api/pull, /api/generate;
\*   avail, pulled, warmed: "unknown", "yes", "no": their answers;
\*   probes, lists: requests of getHelpfulError to /models; running:
\*   "unknown", "yes", "no": the answer to its probe; listed: its list was
\*   answered, with the models loaded; warned: it logged the model mismatch;
\*   error: what the call threw
IdleCall ==
    [op |-> "idle", pc |-> "idle", model |-> "", modelName |-> "",
     chatModel |-> "", chats |-> 0, first |-> "none", firstError |-> {}, ran |-> "none",
     prechecks |-> 0, found |-> "unknown",
     tags |-> 0, pulls |-> 0, warmups |-> 0,
     avail |-> "unknown", pulled |-> "unknown", warmed |-> "unknown",
     probes |-> 0, lists |-> 0, running |-> "unknown", listed |-> FALSE,
     loaded |-> {}, warned |-> FALSE, error |-> ""]

\* a provider just constructed
NewProvider ==
    /\ modelLoadAttempted = {}
    /\ modelOverride = ""
    /\ calls = [c \in CallIds |-> IdleCall]

\* the relay session is followed on its own, on an Ollama provider at rest
NoProvider ==
    /\ NewProvider
    /\ providerKind = "ollama"

Init ==
    /\ pc = "connecting"
    /\ buffer = <<>>
    /\ hasStartedTextBlock = FALSE
    /\ currentBlockIndex = 0
    /\ finishReason = "end_turn"
    /\ toolCalls = <<>>
    /\ hasToolCalls = FALSE
    /\ inputTokens = 0
    /\ outputTokens = 0
    /\ written = <<>>
    /\ resEnded = FALSE
    /\ settled = "pending"
    /\ received = <<>>
    /\ stream = <<>>
    /\ pending = <<>>
    /\ NoClient
    /\ NoOthers
    /\ NoProvider

\* the callback of httpModule.request: the backend answered
Response ==
    /\ pc = "connecting"
    /\ pc' = "streaming"
    /\ SetSession(NewSession)
    /\ WriteTo(NewSession)
    /\ UNCHANGED <<resEnded, settled, received, stream, pending>>
    /\ UNCHANGED <<providerVars, otherVars>>

\* req.on('error', ...)
RequestError ==
    /\ pc = "connecting"
    /\ pc' = "failed"
    /\ settled' = "rejected"
    /\ UNCHANGED <<buffer, hasStartedTextBlock, currentBlockIndex, finishReason,
                   toolCalls, hasToolCalls, inputTokens, outputTokens, written,
                   resEnded, received, stream, pending>>
    /\ UNCHANGED <<gatewayVars, providerVars, otherVars>>

\* upstream.on('data', ...)
Data ==
    /\ pc = "streaming"
    /\ Len(received) < MaxChunks
    /\ \E chunk \in Chunks :
          /\ SetSession(OnData(Session, chunk))
          /\ WriteTo(OnData(Session, chunk))
          /\ received' = Append(received, chunk)
    /\ UNCHANGED <<pc, resEnded, settled, stream, pending>>
    /\ UNCHANGED <<providerVars, otherVars>>

\* upstream.on('end', ...)
End ==
    /\ pc = "streaming"
    /\ SetSession(OnEnd(Session))
    /\ WriteTo(OnEnd(Session))
    /\ resEnded' = TRUE
    /\ settled' = "resolved"
    /\ pc' = "done"
    /\ UNCHANGED <<received, stream, pending>>
    /\ UNCHANGED <<providerVars, otherVars>>

\* upstream.on('error', ...)
UpstreamError ==
    /\ pc = "streaming"
    /\ pc' = "failed"
    /\ settled' = "rejected"
    /\ UNCHANGED <<buffer, hasStartedTextBlock, currentBlockIndex, finishReason,
                   toolCalls, hasToolCalls, inputTokens, outputTokens, written,
                   resEnded, received, stream, pending>>
    /\ UNCHANGED <<gatewayVars, providerVars, otherVars>>

Next == Response \/ RequestError \/ Data \/ End \/ UpstreamError

Spec == Init /\ [][Next]_vars


\* ------------------------------------- a fixed byte stream, cut anywhere
\* backend streams of data lines; the last line of the last stream has no
\* newline after it
Streams ==
    {TextHi \o TextE9 \o DoneLine,
     CatalogLine("tc1_open") \o ArgsE9 \o CatalogLine("fin_tools"),
     TextHi \o CatalogLine("tc0_args") \o CatalogLine("fin_stop") \o DoneLine,
     CatalogLine("tc_two") \o BadJson \o TextHi,
     CatalogLine("fin_stop") \o Front(TextHi)}

InitSplit ==
    /\ pc = "connecting"
    /\ buffer = <<>>
    /\ hasStartedTextBlock = FALSE
    /\ currentBlockIndex = 0
    /\ finishReason = "end_turn"
    /\ toolCalls = <<>>
    /\ hasToolCalls = FALSE
    /\ inputTokens = 0
    /\ outputTokens = 0
    /\ written = <<>>
    /\ resEnded = FALSE
    /\ settled = "pending"
    /\ received = <<>>
    /\ stream \in Streams
    /\ pending = stream
    /\ NoClient
    /\ NoOthers
    /\ NoProvider

\* upstream.on('data', ...) with the next k bytes of the stream
Deliver ==
    /\ pc = "streaming"
    /\ \E k \in 1..Len(pending) :
          /\ SetSession(OnData(Session, SubSeq(pending, 1, k)))
          /\ WriteTo(OnData(Session, SubSeq(pending, 1, k)))
          /\ pending' = SubSeq(pending, k + 1, Len(pending))
    /\ UNCHANGED <<pc, resEnded, settled, received, stream>>
    /\ UNCHANGED <<providerVars, otherVars>>

\* upstream.on('end', ...) once the backend has sent the whole stream
EndOfStream ==
    /\ pending = <<>>
    /\ End

NextSplit == Response \/ Deliver \/ EndOfStream

SpecSplit == InitSplit /\ [][NextSplit]_vars

\* ------------------------------- the streaming request as the server sees it
\* POST /v1/messages has called provider.stream(claudeRequest, res)
InitGateway ==
    /\ pc = "invoked"
    /\ buffer = <<>>
    /\ hasStartedTextBlock = FALSE
    /\ currentBlockIndex = 0
    /\ finishReason = "end_turn"
    /\ toolCalls = <<>>
    /\ hasToolCalls = FALSE
    /\ inputTokens = 0
    /\ outputTokens = 0
    /\ written = <<>>
    /\ resEnded = FALSE
    /\ settled = "pending"
    /\ received = <<>>
    /\ stream = <<>>
    /\ pending = <<>>
    /\ NoClient
    /\ NoOthers
    /\ NoProvider

\* the awaited pre-check of stream() has been answered by the backend:
\* isModelAvailable and, when it says no, ensureModelReady (Ollama);
\* isServerRunning (LM Studio).  ok: stream() goes on and sends the
\* chat-completions request; otherwise it throws
StreamPreCheck ==
    /\ pc = "invoked"
    /\ \E ok \in BOOLEAN :
          /\ pc' = IF ok THEN "connecting" ELSE "failed"
          /\ settled' = IF ok THEN settled ELSE "rejected"
    /\ UNCHANGED <<buffer, hasStartedTextBlock, currentBlockIndex, finishReason,
                   toolCalls, hasToolCalls, inputTokens, outputTokens, written,
                   resEnded, received, stream, pending>>
    /\ UNCHANGED <<gatewayVars, providerVars, otherVars>>

\* the client closes its connection; neither stream() nor the handler
\* listens for it, and later writes to res are dropped
ClientDisconnect ==
    /\ pc \in {"invoked", "connecting", "streaming"}
    /\ downstream = "open"
    /\ downstream' = "closed"
    /\ UNCHANGED <<pc, buffer, hasStartedTextBlock, currentBlockIndex,
                   finishReason, toolCalls, hasToolCalls, inputTokens,
                   outputTokens, written, resEnded, settled, received, stream,
                   pending, errorBody>>
    /\ UNCHANGED <<providerVars, otherVars>>

\* the headers went out with the first res.write
HeadersSent == written # <<>>

\* the catch block of the handler: res.status(500).json({...}).  Once the
\* headers are sent, setting the Content-Type throws: nothing is written or
\* ended, and the handler's promise rejects.  What becomes of the connection
\* then is up to the framework and the runtime: it is left open, or destroyed
CatchError ==
    /\ pc = "failed"
    /\ pc' = "caught"
    /\ errorBody' = ~HeadersSent
    /\ resEnded' = IF HeadersSent THEN resEnded ELSE TRUE
    /\ \E left \in BOOLEAN :
          downstream' = IF HeadersSent /\ ~left THEN "destroyed" ELSE downstream
    /\ UNCHANGED <<buffer, hasStartedTextBlock, currentBlockIndex, finishReason,
                   toolCalls, hasToolCalls, inputTokens, outputTokens, written,
                   settled, received, stream, pending>>
    /\ UNCHANGED <<providerVars, otherVars>>

NextGateway ==
    \/ StreamPreCheck
    \/ Response
    \/ RequestError
    \/ Data
    \/ End
    \/ UpstreamError
    \/ ClientDisconnect
    \/ CatchError

SpecGateway == InitGateway /\ [][NextGateway]_vars


\* ------------------------------------ the provider under concurrent requests
relayVars == <<pc, buffer, hasStartedTextBlock, currentBlockIndex, finishReason,
               toolCalls, hasToolCalls, inputTokens, outputTokens, written,
               resEnded, settled, received, stream, pending>>

\* no relay session is followed
RelayAtRest ==
    /\ pc = "idle"
    /\ buffer = <<>>
    /\ hasStartedTextBlock = FALSE
    /\ currentBlockIndex = 0
    /\ finishReason = "end_turn"
    /\ toolCalls = <<>>
    /\ hasToolCalls = FALSE
    /\ inputTokens = 0
    /\ outputTokens = 0
    /\ written = <<>>
    /\ resEnded = FALSE
    /\ settled = "pending"
    /\ received = <<>>
    /\ stream = <<>>
    /\ pending = <<>>

InitProviders ==
    /\ RelayAtRest
    /\ NoClient
    /\ NoOthers
    /\ NewProvider
    /\ providerKind \in {"ollama", "lmstudio"}

\* BaseProvider.getEffectiveModel
getEffectiveModel == IF modelOverride # "" THEN modelOverride ELSE DefaultModel

\* the test of the catch block of OllamaProvider.complete, made to accept
\* every error
LooksModelRelated_Always(message) == TRUE

\* the test of the catch block of OllamaProvider.complete on error.message
LooksModelRelated(message) == message \cap Markers # {}

\* ensureModelReady without the test of modelLoadAttempted
AlreadyAttempted_Never(modelName) == FALSE

\* `this.modelLoadAttempted.has(modelName)`
AlreadyAttempted(modelName) == modelName \in modelLoadAttempted

\* the next chat-completions request goes out: the retry of complete(), the
\* streaming request of stream()
SendChat(call) ==
    [call EXCEPT !.chats = @ + 1,
                 !.pc = IF call.op = "complete" THEN "chat2" ELSE "request"]

\* ensureModelReady(modelName) up to its first await: a name already
\* attempted returns at once, another is recorded and looked up in /api/tags
EnsureModelReady(call, modelName) ==
    IF AlreadyAttempted(modelName)
    THEN SendChat([call EXCEPT !.modelName = modelName, !.ran = "noop"])
    ELSE [call EXCEPT !.modelName = modelName, !.ran = "started",
                      !.tags = @ + 1, !.pc = "tags"]

Attempted(modelName) ==
    IF AlreadyAttempted(modelName) THEN modelLoadAttempted
    ELSE modelLoadAttempted \cup {modelName}

\* the test after the pre-check of stream(), made to fail always
PreCheckFailed_Always(isAvailable) == TRUE

\* `if (!isAvailable)`, `if (!serverRunning)` after the pre-check of stream()
PreCheckFailed(isAvailable) == ~isAvailable

\* ensureModelReady throwing when the warm-up failed
AfterWarm_Checked(call, ok) ==
    IF ok THEN SendChat([call EXCEPT !.warmed = "yes"])
    ELSE [call EXCEPT !.warmed = "no", !.pc = "threw", !.error = "warm"]

\* `await this.loadModel(modelName)` returns and ensureModelReady with it
AfterWarm(call, ok) ==
    SendChat([call EXCEPT !.warmed = IF ok THEN "yes" ELSE "no"])

\* LMStudioProvider.getHelpfulError up to its first await
GetHelpfulError(call) ==
    [call EXCEPT !.modelName = getEffectiveModel, !.probes = @ + 1,
                 !.pc = "probe"]

\* the call is over; the finally block of the handler clears the override
Finish(c, call) ==
    /\ calls' = [calls EXCEPT ![c] = call]
    /\ modelOverride' = ""

Returned(call) == [call EXCEPT !.pc = "returned"]
Threw(call, error) == [call EXCEPT !.pc = "threw", !.error = error]

\* the handler of POST /v1/messages up to the first await of the provider
HandleRequest(c) ==
    /\ calls[c].op = "idle"
    /\ \E m \in Models, op \in {"complete", "stream"} :
          /\ modelOverride' = m
          /\ calls' = [calls EXCEPT ![c] =
                IF op = "complete"
                THEN [IdleCall EXCEPT !.op = op, !.model = m, !.chatModel = m,
                                      !.chats = 1, !.pc = "chat1"]
                ELSE [IdleCall EXCEPT
                        !.op = op, !.model = m, !.chatModel = m,
                        !.modelName = IF providerKind = "ollama" THEN m ELSE "",
                        !.prechecks = 1, !.pc = "precheck"]]
    /\ UNCHANGED <<modelLoadAttempted, providerKind>>
    /\ UNCHANGED <<relayVars, gatewayVars, otherVars>>

\* the first attempt of complete() is over: makeRequest and the translation
\* of the answer went well, or one of them threw an error with this message
ChatAnswered(c) ==
    /\ calls[c].pc = "chat1"
    /\ \/ /\ Finish(c, Returned([calls[c] EXCEPT !.first = "ok"]))
          /\ UNCHANGED modelLoadAttempted
       \/ \E message \in ErrorMessages :
             LET call == [calls[c] EXCEPT !.first = "failed",
                                          !.firstError = message]
             IN  IF providerKind = "lmstudio"
                 THEN /\ calls' = [calls EXCEPT ![c] = GetHelpfulError(call)]
                      /\ UNCHANGED <<modelLoadAttempted, modelOverride>>
                 ELSE IF LooksModelRelated(message)
                      THEN /\ calls' = [calls EXCEPT ![c] =
                                  EnsureModelReady(call, getEffectiveModel)]
                           /\ modelLoadAttempted' = Attempted(getEffectiveModel)
                           /\ UNCHANGED modelOverride
                      ELSE /\ Finish(c, Threw(call, "first"))
                           /\ UNCHANGED modelLoadAttempted
    /\ UNCHANGED providerKind
    /\ UNCHANGED <<relayVars, gatewayVars, otherVars>>

\* the pre-check of stream() is answered: isModelAvailable (Ollama),
\* isServerRunning (LM Studio)
PreCheckAnswered(c) ==
    /\ calls[c].pc = "precheck"
    /\ \E yes \in BOOLEAN :
          LET call == [calls[c] EXCEPT !.found = IF yes THEN "yes" ELSE "no"]
          IN  IF ~PreCheckFailed(yes)
              THEN /\ calls' = [calls EXCEPT ![c] = SendChat(call)]
                   /\ UNCHANGED modelLoadAttempted
              ELSE IF providerKind = "lmstudio"
                   THEN /\ calls' = [calls EXCEPT ![c] =
                               GetHelpfulError([call EXCEPT !.first = "failed"])]
                        /\ UNCHANGED modelLoadAttempted
                   ELSE /\ calls' = [calls EXCEPT ![c] =
                               EnsureModelReady(call, call.modelName)]
                        /\ modelLoadAttempted' = Attempted(call.modelName)
    /\ UNCHANGED <<modelOverride, providerKind>>
    /\ UNCHANGED <<relayVars, gatewayVars, otherVars>>

\* isModelAvailable inside ensureModelReady is answered
TagsAnswered(c) ==
    /\ calls[c].pc = "tags"
    /\ \E yes \in BOOLEAN :
          calls' = [calls EXCEPT ![c] =
             IF yes
             THEN [@ EXCEPT !.avail = "yes", !.warmups = @ + 1, !.pc = "warm"]
             ELSE [@ EXCEPT !.avail = "no", !.pulls = @ + 1, !.pc = "pull"]]
    /\ UNCHANGED <<modelLoadAttempted, modelOverride, providerKind>>
    /\ UNCHANGED <<relayVars, gatewayVars, otherVars>>

\* pullModel is answered; a failed pull makes ensureModelReady throw
\* "Failed to pull model ..."
PullAnswered(c) ==
    /\ calls[c].pc = "pull"
    /\ \/ /\ calls' = [calls EXCEPT ![c] =
                [@ EXCEPT !.pulled = "yes", !.warmups = @ + 1, !.pc = "warm"]]
          /\ UNCHANGED modelOverride
       \/ Finish(c, Threw([calls[c] EXCEPT !.pulled = "no"], "pull"))
    /\ UNCHANGED <<modelLoadAttempted, providerKind>>
    /\ UNCHANGED <<relayVars, gatewayVars, otherVars>>

\* loadModel is answered; ensureModelReady returns whatever the answer
WarmAnswered(c) ==
    /\ calls[c].pc = "warm"
    /\ \E ok \in BOOLEAN :
          calls' = [calls EXCEPT ![c] = AfterWarm(@, ok)]
    /\ UNCHANGED <<modelLoadAttempted, modelOverride, providerKind>>
    /\ UNCHANGED <<relayVars, gatewayVars, otherVars>>

\* the retry of complete() is over
RetryAnswered(c) ==
    /\ calls[c].pc = "chat2"
    /\ \/ Finish(c, Returned(calls[c]))
       \/ Finish(c, Threw(calls[c], "second"))
    /\ UNCHANGED <<modelLoadAttempted, providerKind>>
    /\ UNCHANGED <<relayVars, gatewayVars, otherVars>>

\* the streaming request is over: the relay ran and stream() resolved, or
\* the request or the backend connection failed and stream() rejected
RequestAnswered(c) ==
    /\ calls[c].pc = "request"
    /\ \/ Finish(c, Returned(calls[c]))
       \/ Finish(c, Threw(calls[c], "request"))
    /\ UNCHANGED <<modelLoadAttempted, providerKind>>
    /\ UNCHANGED <<relayVars, gatewayVars, otherVars>>

\* isServerRunning inside getHelpfulError is answered
ProbeAnswered(c) ==
    /\ calls[c].pc = "probe"
    /\ \/ /\ calls' = [calls EXCEPT ![c] =
                [@ EXCEPT !.running = "yes", !.lists = @ + 1, !.pc = "list"]]
          /\ UNCHANGED modelOverride
       \/ Finish(c, Threw([calls[c] EXCEPT !.running = "no"],
                          "server_not_running"))
    /\ UNCHANGED <<modelLoadAttempted, providerKind>>
    /\ UNCHANGED <<relayVars, gatewayVars, otherVars>>

\* `m.toLowerCase().includes(modelName.toLowerCase().split('/').pop() || '')`
\* for names in lower case without a path, none a part of another
MentionsModel(loadedId, modelName) == loadedId = modelName

\* getHelpfulError failing the request for a model mismatch
AfterList_MismatchFails(call, loadedModels) ==
    LET listed == [call EXCEPT !.listed = TRUE, !.loaded = loadedModels] IN
    IF loadedModels = {} THEN Threw(listed, "no_model_loaded")
    ELSE IF \E m \in loadedModels : MentionsModel(m, call.modelName)
         THEN Threw(listed, "first")
         ELSE Threw([listed EXCEPT !.warned = TRUE], "model_mismatch")

\* getHelpfulError from "Check loaded models" to its return
AfterList(call, loadedModels) ==
    LET listed == [call EXCEPT !.listed = TRUE, !.loaded = loadedModels] IN
    IF loadedModels = {} THEN Threw(listed, "no_model_loaded")
    ELSE Threw([listed EXCEPT
                  !.warned = ~\E m \in loadedModels :
                                 MentionsModel(m, call.modelName)],
               "first")

\* getLoadedModels inside getHelpfulError is answered with the loaded models
ListAnswered(c) ==
    /\ calls[c].pc = "list"
    /\ \E loadedModels \in SUBSET Models :
          Finish(c, AfterList(calls[c], loadedModels))
    /\ UNCHANGED <<modelLoadAttempted, providerKind>>
    /\ UNCHANGED <<relayVars, gatewayVars, otherVars>>

NextProviders ==
    \E c \in CallIds :
       \/ HandleRequest(c)
       \/ ChatAnswered(c)
       \/ PreCheckAnswered(c)
       \/ TagsAnswered(c)
       \/ PullAnswered(c)
       \/ WarmAnswered(c)
       \/ RetryAnswered(c)
       \/ RequestAnswered(c)
       \/ ProbeAnswered(c)
       \/ ListAnswered(c)

SpecProviders == InitProviders /\ [][NextProviders]_vars

\* --------------------------------------- two sessions open at the same time
\* the two stream() calls in flight; each has the closure variables of its
\* own response callback
SessionIds == {"A", "B"}
OtherSession(i) == CHOOSE j \in SessionIds : j # i

\* the chunks a backend sends to either session: a line in two parts, a
\* tool-call line, a line with a finish reason and a usage
TextHiCut == 9
SessionChunks ==
    {SubSeq(TextHi, 1, TextHiCut), SubSeq(TextHi, TextHiCut + 1, Len(TextHi)),
     CatalogLine("tc1_open"), CatalogLine("fin_length")}

\* both requests were sent, neither backend has answered
InitSessions ==
    /\ RelayAtRest
    /\ NoClient
    /\ NoProvider
    /\ trial = [op |-> "none"]
    /\ sessions = [i \in SessionIds |->
                     [pc |-> "connecting", s |-> [NewSession EXCEPT !.written = <<>>],
                      received |-> <<>>]]

\* OnData on the closure variables of the other session's buffer
SessionAfterData_SharedBuffer(ss, i, chunk) ==
    OnData([ss[i].s EXCEPT !.buffer = ss[OtherSession(i)].s.buffer], chunk)

\* upstream.on('data', ...) of session i: it works on the variables declared
\* in its own callback
SessionAfterData(ss, i, chunk) == OnData(ss[i].s, chunk)

\* the callback of httpModule.request of session i
SessionResponse(i) ==
    /\ sessions[i].pc = "connecting"
    /\ sessions' = [sessions EXCEPT ![i].pc = "streaming", ![i].s = NewSession]
    /\ UNCHANGED <<relayVars, gatewayVars, providerVars, trial>>

SessionData(i) ==
    /\ sessions[i].pc = "streaming"
    /\ Len(sessions[i].received) < MaxChunks
    /\ \E chunk \in SessionChunks :
          sessions' = [sessions EXCEPT
                         ![i].s = SessionAfterData(sessions, i, chunk),
                         ![i].received = Append(@, chunk)]
    /\ UNCHANGED <<relayVars, gatewayVars, providerVars, trial>>

\* upstream.on('end', ...) of session i
SessionEnd(i) ==
    /\ sessions[i].pc = "streaming"
    /\ sessions' = [sessions EXCEPT ![i].pc = "done", ![i].s = OnEnd(@)]
    /\ UNCHANGED <<relayVars, gatewayVars, providerVars, trial>>

NextSessions ==
    \E i \in SessionIds :
       \/ SessionResponse(i)
       \/ SessionData(i)
       \/ SessionEnd(i)

SpecSessions == InitSessions /\ [][NextSessions]_vars

\* ------------------------------------------------------- model routing
\* A name is the sequence of its characters.  "c", "c3" and "c3o" are client
\* model names that are prefixes of one another; <<"toString">> stands for
\* the characters of a name that every plain object inherits from
\* Object.prototype; <<>> is the empty string.  No name here is an array
\* index, so Object.entries lists the keys in the order they were defined.
MaxRoutes == 2

RouteNames == {<<>>, <<"c">>, <<"c", "3">>, <<"c", "3", "o">>, <<"toString">>}

\* what `req.body.model` is when the body has no such field
Undefined == <<"(undefined)">>

RequestedModels == RouteNames \cup {<<"x">>, Undefined}

ObjectPrototypeNames == {<<"toString">>}

\* "" is a route whose local model was left empty in the configuration file
LocalModels == Models \cup {""}

HasDistinctKeys(routing) ==
    \A i, j \in 1..Len(routing) : routing[i].key = routing[j].key => i = j

RoutingTables ==
    {t \in UNION {[1..n -> [key : RouteNames, value : LocalModels]] : n \in 0..MaxRoutes} :
        HasDistinctKeys(t)}

StartsWith(name, pattern) ==
    /\ Len(pattern) <= Len(name)
    /\ SubSeq(name, 1, Len(pattern)) = pattern

HasKey(routing, name) == \E i \in 1..Len(routing) : routing[i].key = name

ValueOf(routing, name) ==
    routing[CHOOSE i \in 1..Len(routing) : routing[i].key = name].value

\* routing[requestedModel] on a plain object
Get(routing, name) ==
    IF HasKey(routing, name) THEN ValueOf(routing, name)
    ELSE IF name \in ObjectPrototypeNames THEN "[Function]"
    ELSE "undefined"

Truthy(v) == v # "" /\ v # "undefined"

Returns(v) == [threw |-> FALSE, value |-> v]
Throws(e) == [threw |-> TRUE, value |-> e]

PrefixMatches(routing, requestedModel) ==
    SelectSeq(routing, LAMBDA e : StartsWith(requestedModel, e.key))

FirstPrefix(routing, requestedModel) ==
    Head(PrefixMatches(routing, requestedModel)).value

ExactMatch(routing, requestedModel) == Truthy(Get(routing, requestedModel))

resolveModel(routing, defaultModel, requestedModel) ==
    IF ExactMatch(routing, requestedModel)
    THEN Returns(Get(routing, requestedModel))
    ELSE IF routing # <<>> /\ requestedModel = Undefined
    THEN Throws("TypeError")
    ELSE IF PrefixMatches(routing, requestedModel) # <<>>
    THEN Returns(FirstPrefix(routing, requestedModel))
    ELSE Returns(defaultModel)

InitRouting ==
    /\ RelayAtRest
    /\ NoClient
    /\ NoProvider
    /\ sessions = <<>>
    /\ \E t \in RoutingTables :
          trial = [op |-> "resolveModel", routing |-> t, calls |-> 0,
                   requestedModel |-> <<>>, result |-> Returns(DefaultModel)]

\* POST /v1/messages up to the call of resolveModel
ResolveModel ==
    /\ trial.op = "resolveModel"
    /\ \E n \in RequestedModels :
          trial' = [trial EXCEPT !.calls = 1,
                                 !.requestedModel = n,
                                 !.result = resolveModel(trial.routing, DefaultModel, n)]
    /\ UNCHANGED <<relayVars, gatewayVars, providerVars, sessions>>

NextRouting == ResolveModel

SpecRouting == InitRouting /\ [][NextRouting]_vars

\* ------------------------------------------------- the request translator
\* A text is the sequence of its characters.  Of the backend request only
\* the message list is modelled.  A block-structured message is the only
\* message of its request or has one string message before or after it: each
\* message is converted on its own.
MaxMessages == 2
MaxBlocks == 3

TextA == <<"a">>
TextB == <<"b">>

RECURSIVE Join(_, _)
Join(texts, sep) ==
    IF texts = <<>> THEN <<>>
    ELSE IF Len(texts) = 1 THEN Head(texts)
    ELSE Head(texts) \o sep \o Join(Tail(texts), sep)

\* a ClaudeContentBlock; a tool_result holds a string (isString) or text blocks
ContentBlock(type, text, id, isString, blocks) ==
    [type |-> type, text |-> text, id |-> id, isString |-> isString, blocks |-> blocks]
TextBlock(t) == ContentBlock("text", t, "", TRUE, <<>>)
ToolUseBlock(id) == ContentBlock("tool_use", <<>>, id, TRUE, <<>>)
ToolResultString(id, t) == ContentBlock("tool_result", t, id, TRUE, <<>>)
ToolResultBlocks(id, ts) == ContentBlock("tool_result", <<>>, id, FALSE, ts)

ContentBlocks ==
    {TextBlock(TextA), TextBlock(TextB), ToolUseBlock("toolu_1"),
     ToolResultString("toolu_1", <<"r">>),
     ToolResultBlocks("toolu_2", <<TextA, TextB>>)}

\* a ClaudeMessage
StringMessage(role, t) == [role |-> role, isString |-> TRUE, text |-> t, blocks |-> <<>>]
BlockMessage(role, bs) == [role |-> role, isString |-> FALSE, text |-> <<>>, blocks |-> bs]

Roles == {"user", "assistant"}
StringMessages == {StringMessage(r, t) : r \in Roles, t \in {<<>>, TextA}}
BlockMessages ==
    {BlockMessage(r, bs) : r \in Roles,
                           bs \in UNION {[1..n -> ContentBlocks] : n \in 0..MaxBlocks}}

\* request.system: absent, a string, or an array of text blocks
System(kind, t, ts) == [kind |-> kind, text |-> t, blocks |-> ts]
Systems ==
    {System("absent", <<>>, <<>>), System("string", <<>>, <<>>),
     System("string", <<"S">>, <<>>), System("blocks", <<>>, <<>>),
     System("blocks", <<>>, <<<<"S">>, <<"T">>>>)}

StringLists == UNION {[1..n -> StringMessages] : n \in 0..MaxMessages}

MessageLists ==
    StringLists
      \cup {<<m>> : m \in BlockMessages}
      \cup {<<s, m>> : s \in StringMessages, m \in BlockMessages}
      \cup {<<m, s>> : s \in StringMessages, m \in BlockMessages}

ClaudeRequests ==
    {[system |-> sys, messages |-> ms] : sys \in Systems, ms \in MessageLists}

\* an OpenAIMessage; isNull: content is null
OpenAIMessage(role, content, isNull, tool_call_id, tool_calls) ==
    [role |-> role, content |-> content, isNull |-> isNull,
     tool_call_id |-> tool_call_id, tool_calls |-> tool_calls]

OfType(blocks, type) == SelectSeq(blocks, LAMBDA b : b.type = type)
TextsOf(blocks) == [i \in 1..Len(blocks) |-> blocks[i].text]

extractSystemContent(system) ==
    IF system.kind = "string" THEN system.text
    ELSE Join(system.blocks, <<NL, NL>>)

\* if (request.system): '' and a missing field are falsy, an array is not
SystemMessages(system) ==
    IF system.kind = "blocks" \/ (system.kind = "string" /\ system.text # <<>>)
    THEN <<OpenAIMessage("system", extractSystemContent(system), FALSE, "", <<>>)>>
    ELSE <<>>

\* a string message sent to the backend as a user message whatever its role
StringToOpenAI_AsUser(msg) ==
    <<OpenAIMessage("user", msg.text, FALSE, "", <<>>)>>

StringToOpenAI(msg) ==
    <<OpenAIMessage(msg.role, msg.text, FALSE, "", <<>>)>>

AssistantBlocksToOpenAI(msg) ==
    LET textContent == Join(TextsOf(OfType(msg.blocks, "text")), <<NL>>)
        toolUseBlocks == OfType(msg.blocks, "tool_use")
        openAIToolCalls == [i \in 1..Len(toolUseBlocks) |->
                        [id |-> toolUseBlocks[i].id, name |-> "get_weather",
                         arguments |-> <<"{}">>]]
    IN  IF toolUseBlocks # <<>>
        THEN <<OpenAIMessage("assistant", textContent, textContent = <<>>, "", openAIToolCalls)>>
        ELSE <<OpenAIMessage("assistant", textContent, FALSE, "", <<>>)>>

ToolMessages(toolResultBlocks) ==
    [i \in 1..Len(toolResultBlocks) |->
        LET block == toolResultBlocks[i] IN
        OpenAIMessage("tool",
                      IF block.isString THEN block.text ELSE Join(block.blocks, <<NL>>),
                      FALSE, block.id, <<>>)]

UserTextMessages(textBlocks) ==
    IF textBlocks # <<>>
    THEN <<OpenAIMessage("user", Join(TextsOf(textBlocks), <<NL>>), FALSE, "", <<>>)>>
    ELSE <<>>

\* the user text message put before the tool messages
UserBlocksToOpenAI_TextFirst(msg) ==
    UserTextMessages(OfType(msg.blocks, "text"))
      \o ToolMessages(OfType(msg.blocks, "tool_result"))

UserBlocksToOpenAI(msg) ==
    ToolMessages(OfType(msg.blocks, "tool_result"))
      \o UserTextMessages(OfType(msg.blocks, "text"))

convertClaudeMessageToOpenAI(msg) ==
    IF msg.isString THEN StringToOpenAI(msg)
    ELSE IF msg.role = "assistant" THEN AssistantBlocksToOpenAI(msg)
    ELSE IF msg.role = "user" THEN UserBlocksToOpenAI(msg)
    ELSE <<>>

convertClaudeToOpenAI(request) ==
    [messages |->
        SystemMessages(request.system)
          \o Flatten([i \in 1..Len(request.messages) |->
                         convertClaudeMessageToOpenAI(request.messages[i])])]

InitRequests ==
    /\ RelayAtRest
    /\ NoClient
    /\ NoProvider
    /\ sessions = <<>>
    /\ \E r \in ClaudeRequests :
          trial = [op |-> "convertClaudeToOpenAI", request |-> r,
                   converted |-> FALSE, messages |-> <<>>]

\* complete() and stream() up to the backend request
ConvertClaudeToOpenAI ==
    /\ trial.op = "convertClaudeToOpenAI"
    /\ ~trial.converted
    /\ trial' = [trial EXCEPT !.converted = TRUE,
                              !.messages = convertClaudeToOpenAI(trial.request).messages]
    /\ UNCHANGED <<relayVars, gatewayVars, providerVars, sessions>>

NextRequests == ConvertClaudeToOpenAI

SpecRequests == InitRequests /\ [][NextRequests]_vars

\* ------------------------------------------------ the response translator
\* The arguments of a tool call are JSON text: the characters "{" and "}"
\* around tokens, as in the stream.  Of the response the content blocks and
\* the stop reason are modelled.
MaxToolCalls == 2

ArgsNone == <<>>
ArgsObject == <<"{", "\"q\":1", "}">>
ArgsTruncated == <<"{", "\"q\":">>

OpenAIToolCall(id, name, arguments) == [id |-> id, name |-> name, arguments |-> arguments]

OpenAIToolCalls ==
    {OpenAIToolCall("call_1", "get_weather", ArgsObject),
     OpenAIToolCall("call_2", "list_files", ArgsNone),
     OpenAIToolCall("call_3", "get_weather", ArgsTruncated)}

\* "null": finish_reason is null or missing; "eos": a value outside the table
FinishReasons == {"stop", "length", "content_filter", "tool_calls", "eos", "null"}

\* an OpenAIResponse.  hasChoices: response.choices is an array; hasChoice:
\* choices[0] exists; hasMessage: it has a message; content <<>>: null or ''
\* usage: hasUsage says whether the response has a usage object; a count of 0
\* is a count that is missing or zero
OpenAIResponse(hasChoices, hasChoice, hasMessage, content, tcs, finish) ==
    [hasChoices |-> hasChoices, hasChoice |-> hasChoice, hasMessage |-> hasMessage,
     content |-> content, tool_calls |-> tcs, finish_reason |-> finish,
     usage |-> [hasUsage |-> FALSE, prompt_tokens |-> 0, completion_tokens |-> 0]]

Usages ==
    {[hasUsage |-> FALSE, prompt_tokens |-> 0, completion_tokens |-> 0],
     [hasUsage |-> TRUE, prompt_tokens |-> 7, completion_tokens |-> 0],
     [hasUsage |-> TRUE, prompt_tokens |-> 7, completion_tokens |-> 3]}

OpenAIResponseBodies ==
    {OpenAIResponse(FALSE, FALSE, FALSE, <<>>, <<>>, "null"),
     OpenAIResponse(TRUE, FALSE, FALSE, <<>>, <<>>, "null")}
      \cup {OpenAIResponse(TRUE, TRUE, FALSE, <<>>, <<>>, f) : f \in FinishReasons}
      \cup {OpenAIResponse(TRUE, TRUE, TRUE, c, tcs, f) :
               c \in {<<>>, <<"H", "i">>},
               tcs \in UNION {[1..n -> OpenAIToolCalls] : n \in 0..MaxToolCalls},
               f \in FinishReasons}

OpenAIResponses ==
    {[r EXCEPT !.usage = u] : r \in OpenAIResponseBodies, u \in Usages}

\* JSON.parse(toolCall.function.arguments || '{}')
ParseArguments(arguments) ==
    LET text == IF arguments = <<>> THEN <<"{", "}">> ELSE arguments IN
    IF Len(text) >= 2 /\ text[1] = "{" /\ text[Len(text)] = "}"
    THEN [throws |-> FALSE, value |-> SubSeq(text, 2, Len(text) - 1)]
    ELSE [throws |-> TRUE, value |-> <<>>]

ClaudeText(text) ==
    [type |-> "text", text |-> text, id |-> "", name |-> "", input |-> <<>>]
ClaudeToolUse(toolCall) ==
    [type |-> "tool_use", text |-> <<>>, id |-> toolCall.id, name |-> toolCall.name,
     input |-> ParseArguments(toolCall.arguments).value]

EnsureContent(content) ==
    IF content = <<>> THEN <<ClaudeText(<<>>)>> ELSE content

\* choice?.message?.content, choice?.message?.tool_calls, choice?.finish_reason
ContentOf(response) ==
    IF response.hasChoice /\ response.hasMessage THEN response.content ELSE <<>>
ToolCallsOf(response) ==
    IF response.hasChoice /\ response.hasMessage THEN response.tool_calls ELSE <<>>
FinishReasonOf(response) ==
    IF response.hasChoice THEN response.finish_reason ELSE "null"

\* response.usage?.prompt_tokens || 0, response.usage?.completion_tokens || 0
UsageOf(response) ==
    [input_tokens |-> IF response.usage.hasUsage THEN response.usage.prompt_tokens ELSE 0,
     output_tokens |-> IF response.usage.hasUsage
                       THEN response.usage.completion_tokens ELSE 0]

ClaudeResponse(response, model) ==
    [content |->
        EnsureContent(
           (IF ContentOf(response) # <<>>
            THEN <<ClaudeText(ContentOf(response))>> ELSE <<>>)
             \o [i \in 1..Len(ToolCallsOf(response)) |->
                    ClaudeToolUse(ToolCallsOf(response)[i])]),
     model |-> model,
     stop_reason |-> mapFinishReason(FinishReasonOf(response)),
     usage |-> UsageOf(response)]

\* the response labelled with the backend model that answered
convertOpenAIToClaude_EffectiveModel(response, originalModel) ==
    IF ~response.hasChoices THEN Throws("TypeError")
    ELSE IF \E i \in 1..Len(ToolCallsOf(response)) :
               ParseArguments(ToolCallsOf(response)[i].arguments).throws
    THEN Throws("SyntaxError")
    ELSE Returns(ClaudeResponse(response, DefaultModel))

convertOpenAIToClaude(response, originalModel) ==
    IF ~response.hasChoices THEN Throws("TypeError")
    ELSE IF \E i \in 1..Len(ToolCallsOf(response)) :
               ParseArguments(ToolCallsOf(response)[i].arguments).throws
    THEN Throws("SyntaxError")
    ELSE Returns(ClaudeResponse(response, originalModel))

\* the chunks of a stream that carries text and every kind of finish reason
StopChunks ==
    {TextHi, CatalogLine("usage_only")}
      \cup {CatalogLine(n) : n \in {"fin_stop", "fin_length", "fin_filter",
                                     "fin_tools", "fin_other"}}

InitResponses ==
    \/ /\ Init
    \/ /\ RelayAtRest
       /\ NoClient
       /\ NoProvider
       /\ sessions = <<>>
       /\ \E r \in OpenAIResponses :
             trial = [op |-> "convertOpenAIToClaude", response |-> r,
                      converted |-> FALSE, result |-> Throws("none")]

\* complete() once the backend has answered
ConvertOpenAIToClaude ==
    /\ trial.op = "convertOpenAIToClaude"
    /\ ~trial.converted
    /\ trial' = [trial EXCEPT !.converted = TRUE,
                              !.result = convertOpenAIToClaude(trial.response, RequestModel)]
    /\ UNCHANGED <<relayVars, gatewayVars, providerVars, sessions>>

\* upstream.on('data', ...) of a stream made of StopChunks
StopData ==
    /\ pc = "streaming"
    /\ Len(received) < MaxChunks
    /\ \E chunk \in StopChunks :
          /\ SetSession(OnData(Session, chunk))
          /\ WriteTo(OnData(Session, chunk))
          /\ received' = Append(received, chunk)
    /\ UNCHANGED <<pc, resEnded, settled, stream, pending>>
    /\ UNCHANGED <<providerVars, otherVars>>

NextResponses == ConvertOpenAIToClaude \/ Response \/ StopData \/ End

SpecResponses == InitResponses /\ [][NextResponses]_vars

\* ------------------------------------- the status of the backend's answer
\* stream() with the status line of the backend's answer followed: 0 stands
\* for an answer that has not arrived.  A backend that refuses the request
\* answers with a JSON error document, which is no event stream.
BackendStatuses == {200, 404, 500}

ErrorDocument == <<"{", "error", "}">>

StatusChunks(status) ==
    IF status = 200 THEN StopChunks
    ELSE {ErrorDocument, ErrorDocument \o <<NL>>}

InitStatus ==
    /\ pc = "connecting"
    /\ buffer = <<>>
    /\ hasStartedTextBlock = FALSE
    /\ currentBlockIndex = 0
    /\ finishReason = "end_turn"
    /\ toolCalls = <<>>
    /\ hasToolCalls = FALSE
    /\ inputTokens = 0
    /\ outputTokens = 0
    /\ written = <<>>
    /\ resEnded = FALSE
    /\ settled = "pending"
    /\ received = <<>>
    /\ stream = <<>>
    /\ pending = <<>>
    /\ NoClient
    /\ NoProvider
    /\ sessions = <<>>
    /\ trial = [op |-> "stream", status |-> 0]

\* the callback of httpModule.request, which does not read upstream.statusCode
StatusResponse ==
    /\ pc = "connecting"
    /\ trial.op = "stream"
    /\ pc' = "streaming"
    /\ SetSession(NewSession)
    /\ WriteTo(NewSession)
    /\ \E status \in BackendStatuses : trial' = [trial EXCEPT !.status = status]
    /\ UNCHANGED <<resEnded, settled, received, stream, pending>>
    /\ UNCHANGED <<providerVars, sessions>>

\* upstream.on('data', ...) on the body that goes with the status
StatusData ==
    /\ pc = "streaming"
    /\ trial.op = "stream"
    /\ Len(received) < MaxChunks
    /\ \E chunk \in StatusChunks(trial.status) :
          /\ SetSession(OnData(Session, chunk))
          /\ WriteTo(OnData(Session, chunk))
          /\ received' = Append(received, chunk)
    /\ UNCHANGED <<pc, resEnded, settled, stream, pending>>
    /\ UNCHANGED <<providerVars, otherVars>>

NextStatus ==
    \/ StatusResponse
    \/ RequestError
    \/ StatusData
    \/ End
    \/ UpstreamError
    \/ CatchError

SpecStatus == InitStatus /\ [][NextStatus]_vars

\* ------------------------------------------------ what the relay was given
\* the text handed to the relay so far: the chunks received, each decoded as
\* it arrived
ReceivedText == Flatten([i \in 1..Len(received) |-> BufferToString(received[i])])

\* the complete lines of that text
ReceivedLines == Front(SplitNL(ReceivedText))

IsJsonLine(line) ==
    /\ StartsWithData(line)
    /\ Slice6(line) # DoneSentinel
    /\ ~JSONParse(Slice6(line)).throws

\* the well-formed backend chunks of those lines, in order
ReceivedChunks ==
    LET ls == SelectSeq(ReceivedLines, IsJsonLine)
    IN  [i \in 1..Len(ls) |-> JSONParse(Slice6(ls[i])).value]

CarriesText(c) == c.hasChoices /\ c.hasChoice /\ c.content # <<>>
CarriesToolCalls(c) == c.hasChoices /\ c.hasChoice /\ c.tool_calls # <<>>

\* the content fragments of those chunks, in order
ReceivedFragments ==
    LET cs == SelectSeq(ReceivedChunks, CarriesText)
    IN  [i \in 1..Len(cs) |-> cs[i].content]

\* the entries of a tool-call list that precede its first null entry
RECURSIVE UpToNull(_)
UpToNull(deltas) ==
    IF deltas = <<>> \/ Head(deltas).isNull THEN <<>>
    ELSE <<Head(deltas)>> \o UpToNull(Tail(deltas))

\* the tool-call deltas of those chunks, in order
ReceivedToolDeltas ==
    LET cs == SelectSeq(ReceivedChunks, CarriesToolCalls)
    IN  Flatten([i \in 1..Len(cs) |-> UpToNull(cs[i].tool_calls)])

\* the slots of a sequence of tool-call deltas, in the order first seen
RECURSIVE FirstSeen(_, _)
FirstSeen(deltas, seen) ==
    IF deltas = <<>> THEN seen
    ELSE FirstSeen(Tail(deltas),
                   IF \E i \in 1..Len(seen) : seen[i] = Head(deltas).index
                   THEN seen ELSE Append(seen, Head(deltas).index))

ReceivedSlots == FirstSeen(ReceivedToolDeltas, <<>>)

\* the argument fragments sent for slot k, joined in arrival order
RECURSIVE ArgsOf(_, _)
ArgsOf(deltas, k) ==
    IF deltas = <<>> THEN <<>>
    ELSE (IF Head(deltas).index = k THEN Head(deltas).arguments ELSE <<>>)
           \o ArgsOf(Tail(deltas), k)

\* ------------------------------------------------------- views of `written`
IsStart(e) == e.type = "content_block_start"
IsStop(e) == e.type = "content_block_stop"
IsDelta(e) == e.type = "content_block_delta"
IsBlockEvent(e) == IsStart(e) \/ IsStop(e) \/ IsDelta(e)
IsTextDelta(e) == IsDelta(e) /\ e.delta = "text_delta"
IsJsonDelta(e) == IsDelta(e) /\ e.delta = "input_json_delta"
IsToolStart(e) == IsStart(e) /\ e.block = "tool_use"
IsMessageStart(e) == e.type = "message_start"
IsMessageDelta(e) == e.type = "message_delta"
IsMessageStop(e) == e.type = "message_stop"

Starts == SelectSeq(written, IsStart)
Stops == SelectSeq(written, IsStop)

\* the indices of the blocks open after the first n events
OpenAfter(n) ==
    {i \in {written[m].index : m \in 1..n} :
        Cardinality({m \in 1..n : IsStart(written[m]) /\ written[m].index = i})
          > Cardinality({m \in 1..n : IsStop(written[m]) /\ written[m].index = i})}

\* ------------------------------------------------------------------ claims

\* C1: in a session that reached backend-stream end there are as many
\* content_block_stop events as content_block_start events; the k-th start
\* and the k-th stop carry index k-1 (indices 0..N-1 in emission order, no
\* gap, no repeat), and at any time the starts written so far are numbered
\* this way
C1_BalancedContiguous ==
    /\ \A k \in 1..Len(Starts) : Starts[k].index = k - 1
    /\ pc = "done" =>
          /\ Len(Starts) = Len(Stops)
          /\ \A k \in 1..Len(Stops) : Stops[k].index = k - 1

C1_Witness ==
    /\ pc = "done"
    /\ Len(Starts) = 3
    /\ Starts[1].block = "text"
    /\ Starts[3].block = "tool_use"

\* C2: at most one content block is open; a block starts only when none is
\* open, a delta and a stop carry the index of the one open block, and when
\* the session has ended every started index has exactly one stop
C2_OneOpenBlock ==
    /\ \A n \in 0..Len(written) : Cardinality(OpenAfter(n)) <= 1
    /\ \A n \in 1..Len(written) :
          LET open == OpenAfter(n - 1) IN
          /\ IsStart(written[n]) => open = {}
          /\ IsDelta(written[n]) => open = {written[n].index}
          /\ IsStop(written[n]) => open = {written[n].index}
    /\ pc = "done" =>
          /\ OpenAfter(Len(written)) = {}
          /\ \A k \in 1..Len(Starts) :
                Cardinality({m \in 1..Len(written) :
                               IsStop(written[m])
                                 /\ written[m].index = Starts[k].index}) = 1

C2_Witness ==
    /\ pc = "done"
    /\ \E n \in 1..Len(written) : IsTextDelta(written[n])
    /\ \E n \in 1..Len(written) : IsJsonDelta(written[n])
    /\ Len(SelectSeq(written, IsTextDelta)) >= 2

\* C3: message_start is the first event and is written once; message_delta
\* and message_stop are written only at backend-stream end, once each, in
\* that order, as the last two events after every content-block event, and
\* the response is ended then and only then
C3_EventGrammar ==
    /\ pc = "connecting" => written = <<>>
    /\ pc \in {"streaming", "done"} =>
          /\ Len(written) >= 1
          /\ IsMessageStart(written[1])
    /\ \A n \in 2..Len(written) : ~IsMessageStart(written[n])
    /\ pc = "done" =>
          /\ resEnded
          /\ Len(written) >= 3
          /\ IsMessageStop(written[Len(written)])
          /\ IsMessageDelta(written[Len(written) - 1])
          /\ \A n \in 2..(Len(written) - 2) : IsBlockEvent(written[n])
    /\ pc # "done" =>
          /\ ~resEnded
          /\ \A n \in 1..Len(written) :
                ~IsMessageDelta(written[n]) /\ ~IsMessageStop(written[n])

C3_Witness ==
    /\ pc = "done"
    /\ resEnded
    /\ Len(written) >= 8


\* C4: a session that reached backend-stream end has written at least one
\* content block (a start and a stop) before message_delta
C4_AtLeastOneBlock ==
    pc = "done" => Len(Starts) >= 1 /\ Len(Stops) >= 1

\* no chunk with a non-empty content and no chunk with a non-empty tool-call
\* list was sent
NothingProduced ==
    LET cs == ReceivedChunks
    IN  \A i \in 1..Len(cs) : ~CarriesText(cs[i]) /\ ~CarriesToolCalls(cs[i])

TextDeltas == SelectSeq(written, IsTextDelta)

\* C6: the text_delta events carry, in order, the content fragments of the
\* backend chunks the relay was given, one event per fragment and the
\* fragment unchanged; the first is preceded by the one text
\* content_block_start, every other by the text_delta before it; the
\* output_tokens of message_delta is the number of fragments
C6_TextRelayFidelity ==
    /\ pc \in {"streaming", "done"} =>
          LET sent == ReceivedFragments
              deltas == TextDeltas
          IN  /\ Len(deltas) = Len(sent)
              /\ \A k \in 1..Len(deltas) : deltas[k].payload = sent[k]
              /\ outputTokens = Len(sent)
    /\ Cardinality({n \in 1..Len(written) :
                      IsStart(written[n]) /\ written[n].block = "text"
                        /\ \E m \in 1..Len(written) : IsTextDelta(written[m])}) <= 1
    /\ \A n \in 1..Len(written) :
          IsTextDelta(written[n]) =>
              \/ written[n - 1] = TextBlockStart(written[n].index)
              \/ IsTextDelta(written[n - 1])
    /\ pc = "done" =>
          written[Len(written) - 1].output_tokens = Len(ReceivedFragments)

C6_Witness ==
    /\ pc = "done"
    /\ Len(TextDeltas) = 3
    /\ TextDeltas[1].payload # TextDeltas[2].payload
    /\ written[Len(written) - 1].output_tokens = 3

\* the input_json_delta payloads written for block index i, in order
JsonPayloads(i) ==
    LET ds == SelectSeq(written, LAMBDA e : IsJsonDelta(e) /\ e.index = i)
    IN  [k \in 1..Len(ds) |-> ds[k].payload]

\* the index of the first tool_use block
ToolBase == IF ReceivedFragments # <<>> THEN 1 ELSE 0

\* C7: when the session has ended, the block of the p-th slot (in first-seen
\* order) carries the argument fragments sent for that slot, joined in
\* arrival order, in one input_json_delta, or no input_json_delta when the
\* joined string is empty; no input_json_delta is written before stream end
C7_ToolArgsAccumulated ==
    /\ pc = "streaming" => \A n \in 1..Len(written) : ~IsJsonDelta(written[n])
    /\ pc = "done" =>
          LET sent == ReceivedToolDeltas
              slots == FirstSeen(sent, <<>>)
              base == ToolBase
          IN  \A p \in 1..Len(slots) :
                 LET args == ArgsOf(sent, slots[p])
                 IN  JsonPayloads(base + p - 1)
                       = IF args = <<>> THEN <<>> ELSE <<args>>

C7_Witness ==
    /\ pc = "done"
    /\ Len(toolCalls) = 2
    /\ \E n \in 1..Len(written) : IsJsonDelta(written[n]) /\ Len(written[n].payload) = 2
    /\ Len(SelectSeq(written, IsJsonDelta)) = 2

\* C8: while the backend stream is open nothing of a tool_use block is
\* written: the events are message_start, then the text block's start if a
\* fragment was sent, then one text_delta per fragment, whatever tool-call
\* deltas were processed
C8_NoToolEventsWhileOpen ==
    pc = "streaming" =>
        /\ \A n \in 1..Len(written) :
              /\ ~IsStop(written[n])
              /\ IsStart(written[n]) => written[n].block = "text"
              /\ IsDelta(written[n]) => written[n].delta = "text_delta"
        /\ LET sent == Len(ReceivedFragments)
           IN  Len(written) = 1 + sent + (IF sent > 0 THEN 1 ELSE 0)

C8_Witness ==
    /\ pc = "streaming"
    /\ Len(toolCalls) = 2
    /\ Len(received) = MaxChunks
    /\ toolCalls[1].arguments # <<>>

\* the last non-empty id (name) sent for slot k, "" if none
RECURSIVE LastId(_, _)
LastId(deltas, k) ==
    IF deltas = <<>> THEN ""
    ELSE IF Last(deltas).index = k /\ Last(deltas).id # "" THEN Last(deltas).id
         ELSE LastId(Front(deltas), k)

RECURSIVE LastName(_, _)
LastName(deltas, k) ==
    IF deltas = <<>> THEN ""
    ELSE IF Last(deltas).index = k /\ Last(deltas).name # "" THEN Last(deltas).name
         ELSE LastName(Front(deltas), k)

ToolStartPositions == {n \in 1..Len(written) : IsToolStart(written[n])}

\* C9: when the session has ended there is one tool_use block per slot sent,
\* the p-th block (by position in the output) is the block of the p-th slot
\* first seen and has index ToolBase + p - 1, and each block is written as
\* start, at most one input_json_delta, stop, one after the other
C9_ToolBlocksInFirstSeenOrder ==
    pc = "done" =>
        LET ts == SelectSeq(written, IsToolStart)
            sent == ReceivedToolDeltas
            slots == FirstSeen(sent, <<>>)
            base == ToolBase
        IN
        /\ Len(ts) = Len(slots)
        /\ \A p \in 1..Len(ts) :
              LET k == slots[p] IN
              /\ ts[p].index = base + p - 1
              /\ ts[p].name = LastName(sent, k)
              /\ ts[p].id = IF LastId(sent, k) # ""
                            THEN LastId(sent, k) ELSE GeneratedId(k)
        /\ \A n \in ToolStartPositions :
              \/ written[n + 1] = BlockStop(written[n].index)
              \/ /\ IsJsonDelta(written[n + 1])
                 /\ written[n + 1].index = written[n].index
                 /\ written[n + 2] = BlockStop(written[n].index)

C9_Witness ==
    /\ pc = "done"
    /\ ReceivedSlots = <<1, 0>>
    /\ Len(SelectSeq(written, IsJsonDelta)) = 1
    /\ ReceivedFragments # <<>>


\* C10: when a session fed a fixed byte stream of newline-terminated data
\* lines has ended, the events written are those written when the whole
\* stream arrives in one chunk, however the stream was cut into chunks
C10_SplitIndependent ==
    (pc = "done" /\ stream # <<>>) =>
        written = OnEnd(OnData(NewSession, stream)).written


\* ------------------------------------------------- malformed chunk bodies
\* the try block throws on this data line: the body is not JSON, it has no
\* choices array, or its tool-call list holds a null entry
IsMalformedLine(line) ==
    /\ StartsWithData(line)
    /\ Slice6(line) # DoneSentinel
    /\ LET r == JSONParse(Slice6(line)) IN
          \/ r.throws
          \/ ~r.value.hasChoices
          \/ \E i \in 1..Len(r.value.tool_calls) : r.value.tool_calls[i].isNull

IsWellFormedLine(line) == ~IsMalformedLine(line)

\* the session that the received lines other than the malformed ones produce
WithoutMalformed == ProcessLines(NewSession, SelectSeq(ReceivedLines, IsWellFormedLine))

\* C11: a malformed chunk body is discarded: while the session streams, the
\* events written and the session state (open-text flag, block index,
\* tool-call slots, token counts, finish reason) are those that the received
\* lines produce with the malformed ones left out
C11_MalformedDiscarded ==
    pc = "streaming" =>
        Session = [WithoutMalformed EXCEPT !.buffer = buffer]

\* ------------------------------------------------------------ stop reason
\* the finish reasons of the chunks processed to the end of the try block
ProcessedFinishReasons ==
    LET ls == SelectSeq(ReceivedLines,
                        LAMBDA l : IsJsonLine(l) /\ IsWellFormedLine(l))
        cs == [i \in 1..Len(ls) |-> JSONParse(Slice6(ls[i])).value]
        fs == SelectSeq(cs, LAMBDA c : c.hasChoice /\ c.finish_reason # "null")
    IN  [i \in 1..Len(fs) |-> fs[i].finish_reason]

MessageDeltas == SelectSeq(written, IsMessageDelta)

\* C12: the stop_reason of message_delta is the mapping of the last finish
\* reason of a processed chunk, and end_turn when no chunk carried one
C12_StopReasonIsLastFinish ==
    pc = "done" =>
        /\ Len(MessageDeltas) = 1
        /\ MessageDeltas[1].stop_reason =
              IF ProcessedFinishReasons = <<>> THEN "end_turn"
              ELSE mapFinishReason(Last(ProcessedFinishReasons))

\* a later finish reason replaced an earlier, different one
C12_Witness ==
    /\ pc = "done"
    /\ Len(ProcessedFinishReasons) >= 2
    /\ mapFinishReason(ProcessedFinishReasons[1])
          # mapFinishReason(Last(ProcessedFinishReasons))


\* ------------------------------------------------ when message_start is sent
\* C13 as stated: message_start is the first thing stream() does, so once
\* stream() has waited for the backend (its pre-check answered, its request
\* sent) the event is written
C13_MessageStartImmediate ==
    pc # "invoked" => (written # <<>> /\ IsMessageStart(written[1]))

\* C13: message_start is written when the backend's response arrives, after
\* the pre-check and the request and before any chunk of the body; it has
\* empty content and zero usage, and no later event carries a prompt-token
\* count
C13_MessageStartOnResponse ==
    /\ pc \in {"invoked", "connecting"} => written = <<>>
    /\ received # <<>> => written # <<>>
    /\ pc \in {"streaming", "done"} =>
          /\ written # <<>>
          /\ IsMessageStart(written[1])
          /\ written[1].payload = <<>>
          /\ written[1].input_tokens = 0
          /\ written[1].output_tokens = 0
          /\ \A i \in 2..Len(written) : written[i].input_tokens = -1

\* the session ended after the backend reported a prompt-token count
C13_Witness ==
    /\ pc = "done"
    /\ inputTokens > 0
    /\ Len(written) > 1


\* ------------------------------------------------- the client goes away
\* C14: once the client has disconnected the relay reads nothing more from
\* the backend
C14_StopsReadingOnDisconnect ==
    [][(downstream = "closed" \/ downstream = "broken")
          => received' = received]_vars

\* C15: after a transport error, a write to the client that failed or an
\* error of the backend connection, stream() does not resolve and no further
\* event is written
C15_TransportErrorRejects ==
    [][(downstream = "broken" \/ settled = "rejected")
          => (settled' # "resolved" /\ written' = written)]_vars

\* C16: when a streaming request has failed after message_start, the handler
\* has sent no error body and the connection to the client is ended
C16_FailedStreamClosed ==
    (pc = "caught" /\ HeadersSent) =>
        (~errorBody /\ (resEnded \/ downstream = "destroyed"))


\* ------------------------------------------------ retry and model readiness
\* the first attempt failed with a message holding one of the words looked for
FirstFailedModelRelated(call) ==
    call.first = "failed" /\ call.firstError \cap Markers # {}

\* the call to ensureModelReady has returned without throwing
EnsureReturned(call) ==
    \/ call.ran = "noop"
    \/ call.ran = "started" /\ call.warmed # "unknown"

\* C17: a complete() on Ollama sends at most two chat-completions requests,
\* the second only after a first attempt that failed with a model-related
\* message and an ensureModelReady that returned; when the second fails its
\* error is what complete() throws; stream() and LM Studio send at most one
C17_BoundedRetry ==
    \A c \in CallIds :
       LET call == calls[c] IN
       /\ call.chats <= 2
       /\ call.chats = 2 =>
             /\ providerKind = "ollama"
             /\ call.op = "complete"
             /\ FirstFailedModelRelated(call)
             /\ EnsureReturned(call)
       /\ (call.chats = 2 /\ call.pc = "threw") => call.error = "second"
       /\ (call.op = "stream" \/ providerKind = "lmstudio") => call.chats <= 1

\* a retry was made after the readiness sequence ran, and it failed
C17_Witness ==
    \E c \in CallIds :
       /\ calls[c].chats = 2
       /\ calls[c].ran = "started"
       /\ calls[c].pc = "threw"
       /\ calls[c].error = "second"

\* requests of the readiness orchestrator or of an availability check
ReadinessRequests(call) ==
    call.prechecks + call.tags + call.pulls + call.warmups

Started(modelName) ==
    {c \in CallIds : calls[c].ran = "started" /\ calls[c].modelName = modelName}

\* C19: for every model name the availability-check / pull / warm-up
\* sequence is started by at most one call of ensureModelReady, and a call
\* that found the name attempted has sent nothing to the backend
C19_ReadinessStartedOnce ==
    /\ \A m \in Models :
          /\ Cardinality(Started(m)) <= 1
          /\ m \in modelLoadAttempted <=> Started(m) # {}
    /\ \A c \in CallIds :
          calls[c].ran = "noop" =>
             calls[c].tags = 0 /\ calls[c].pulls = 0 /\ calls[c].warmups = 0

\* a second call for the name while the first is still waiting for the backend
C19_Witness ==
    \E c, d \in CallIds :
       /\ c # d
       /\ calls[c].modelName = calls[d].modelName
       /\ calls[c].ran = "started"
       /\ calls[c].pc \in {"tags", "pull", "warm"}
       /\ calls[d].ran = "noop"

\* C20: a call of ensureModelReady that runs the sequence requests a pull
\* exactly when the availability check says no; after a failed pull it
\* throws the pull error and sends no warm-up; otherwise it sends one
\* warm-up and returns normally whatever the answer to it
C20_PullThenWarm ==
    \A c \in CallIds :
       LET call == calls[c] IN
       call.ran = "started" =>
          /\ call.tags = 1
          /\ call.pulls = (IF call.avail = "no" THEN 1 ELSE 0)
          /\ call.pulled # "unknown" => call.avail = "no"
          /\ call.pulled = "no" =>
                call.pc = "threw" /\ call.error = "pull" /\ call.warmups = 0
          /\ call.warmups =
                (IF call.avail = "yes" \/ call.pulled = "yes" THEN 1 ELSE 0)
          /\ call.warmed # "unknown" =>
                /\ call.pc \in {"chat2", "request", "returned", "threw"}
                /\ call.error \in {"", "second", "request"}

\* the pull went well, the warm-up failed, and the request was served
C20_Witness ==
    \E c \in CallIds :
       /\ calls[c].ran = "started"
       /\ calls[c].pulled = "yes"
       /\ calls[c].warmed = "no"
       /\ calls[c].pc = "returned"


\* ------------------------------------------------- LM Studio diagnostics
\* C21: on LM Studio a failed complete(), or a stream() whose pre-check
\* failed, throws the 'server not running' error when the probe of
\* getHelpfulError fails, else the 'no model loaded' error when no model is
\* loaded, else the error it failed with; a mismatch of the loaded models
\* with the requested one is logged and changes neither
C21_DiagnosticProbe ==
    providerKind = "lmstudio" =>
        \A c \in CallIds :
           LET call == calls[c] IN
           /\ call.probes > 0 => call.first = "failed"
           /\ call.running = "no" =>
                 call.pc = "threw" /\ call.error = "server_not_running"
           /\ (call.listed /\ call.loaded = {}) =>
                 call.pc = "threw" /\ call.error = "no_model_loaded"
           /\ (call.listed /\ call.loaded # {}) =>
                 call.pc = "threw" /\ call.error = "first"
           /\ call.warned =>
                 /\ call.listed /\ call.loaded # {}
                 /\ call.modelName \notin call.loaded
           /\ call.pc = "returned" => (call.probes = 0 /\ ~call.warned)
           /\ (call.pc = "threw" /\ call.first = "failed") =>
                 call.running = "no" \/ call.listed

\* a request failed while a model other than the requested one was loaded
C21_Witness ==
    \E c \in CallIds :
       /\ providerKind = "lmstudio"
       /\ calls[c].op = "complete"
       /\ calls[c].warned
       /\ calls[c].pc = "threw"
       /\ calls[c].error = "first"


\* ------------------------------------------------- concurrent requests
\* C22: the model name a request uses after an await, the name handed to
\* ensureModelReady and the name of the LM Studio diagnostics, is the model
\* resolved for that request
C22_OwnModelAfterAwait ==
    \A c \in CallIds :
       calls[c].modelName # "" => calls[c].modelName = calls[c].model


\* the session that these chunks produce on a relay that serves nothing else
RECURSIVE RelayAlone(_)
RelayAlone(chunks) ==
    IF chunks = <<>> THEN NewSession
    ELSE OnData(RelayAlone(Front(chunks)), Last(chunks))

\* C23: each of two sessions open at the same time has the events and the
\* state (buffer, block index, tool-call slots, token counts, finish reason)
\* that its own chunks produce on a relay serving it alone
C23_SessionIsolation ==
    \A i \in SessionIds :
       /\ sessions[i].pc = "streaming" =>
             sessions[i].s = RelayAlone(sessions[i].received)
       /\ sessions[i].pc = "done" =>
             sessions[i].s = OnEnd(RelayAlone(sessions[i].received))

\* one session holds half a line and an open text block while the other has
\* a tool-call slot and a finish reason
C23_Witness ==
    /\ sessions # <<>>
    /\ sessions["A"].pc = "streaming"
    /\ sessions["A"].s.buffer # <<>>
    /\ sessions["A"].s.hasStartedTextBlock
    /\ sessions["B"].pc = "streaming"
    /\ sessions["B"].s.toolCalls # <<>>
    /\ sessions["B"].s.finishReason = "max_tokens"


\* C24: every backend request that names a model, the chat-completions
\* request and its retry, the pull and the warm-up, names the model resolved
\* for the client request it serves
C24_BackendModelIsResolved ==
    \A c \in CallIds :
       LET call == calls[c] IN
       /\ call.chats > 0 => call.chatModel = call.model
       /\ call.pulls + call.warmups > 0 => call.modelName = call.model



\* ------------------------------------------------------------ model routing
Resolved == trial.calls > 0

\* C25: a requested name that equals a key of the routing table resolves to
\* that key's value, whatever other keys are prefixes of it
C25_ExactMatchWins ==
    (Resolved /\ HasKey(trial.routing, trial.requestedModel)) =>
        trial.result = Returns(ValueOf(trial.routing, trial.requestedModel))

\* the same on tables that leave no local model empty
ExactMatchWins_NoEmptyValue ==
    (/\ Resolved
     /\ HasKey(trial.routing, trial.requestedModel)
     /\ \A i \in 1..Len(trial.routing) : trial.routing[i].value # "") =>
        trial.result = Returns(ValueOf(trial.routing, trial.requestedModel))

ExactMatchWins_Witness ==
    /\ Resolved
    /\ Len(trial.routing) = 2
    /\ trial.routing[1].key = <<"c">>
    /\ trial.routing[2].key = <<"c", "3">>
    /\ trial.requestedModel = <<"c", "3">>
    /\ trial.routing[1].value = "m1"
    /\ trial.routing[2].value = "m2"
    /\ trial.result = Returns("m2")

\* the first entry of the table, in the order of the configuration, whose key
\* is a prefix of the name
FirstInOrder(routing, name) ==
    routing[CHOOSE i \in 1..Len(routing) :
               /\ StartsWith(name, routing[i].key)
               /\ \A j \in 1..(i - 1) : ~StartsWith(name, routing[j].key)]

HasPrefixKey(routing, name) ==
    \E i \in 1..Len(routing) : StartsWith(name, routing[i].key)

\* C26: a requested name that equals no key resolves to the value of the
\* first entry in configuration order whose key is a prefix of it, to the
\* default model when there is none, and resolving never fails
C26_FirstPrefixElseDefault ==
    (Resolved /\ ~HasKey(trial.routing, trial.requestedModel)) =>
        /\ ~trial.result.threw
        /\ trial.result.value =
              IF HasPrefixKey(trial.routing, trial.requestedModel)
              THEN FirstInOrder(trial.routing, trial.requestedModel).value
              ELSE DefaultModel

\* the same for the names that are strings no plain object inherits
FirstPrefixElseDefault_OrdinaryNames ==
    (/\ Resolved
     /\ ~HasKey(trial.routing, trial.requestedModel)
     /\ trial.requestedModel # Undefined
     /\ trial.requestedModel \notin ObjectPrototypeNames) =>
        /\ ~trial.result.threw
        /\ trial.result.value =
              IF HasPrefixKey(trial.routing, trial.requestedModel)
              THEN FirstInOrder(trial.routing, trial.requestedModel).value
              ELSE DefaultModel

FirstPrefix_Witness ==
    /\ Resolved
    /\ Len(trial.routing) = 2
    /\ trial.routing[1].key = <<"c">>
    /\ trial.routing[2].key = <<"c", "3">>
    /\ trial.requestedModel = <<"c", "3", "o">>
    /\ trial.routing[1].value = "m1"
    /\ trial.routing[2].value = "m2"
    /\ trial.result = Returns("m1")

\* ------------------------------------------------- the request translator
\* what the backend is to receive for one block-structured user message
ToolsThenText(msg) ==
    LET results == SelectSeq(msg.blocks, LAMBDA b : b.type = "tool_result")
        texts == SelectSeq(msg.blocks, LAMBDA b : b.type = "text")
    IN  [i \in 1..Len(results) |->
            [role |-> "tool", tool_call_id |-> results[i].id]]
          \o (IF texts = <<>> THEN <<>>
              ELSE <<[role |-> "user", tool_call_id |-> ""]>>)

JoinedText(msg) ==
    Join(TextsOf(SelectSeq(msg.blocks, LAMBDA b : b.type = "text")), <<NL>>)

\* the backend messages that stand for message i of a request whose other
\* messages are strings
Segment(i) ==
    LET after == Len(trial.request.messages) - i
        size == Len(ToolsThenText(trial.request.messages[i]))
    IN  SubSeq(trial.messages, Len(trial.messages) - after - size + 1,
               Len(trial.messages) - after)

\* C27: a block-structured user message becomes one tool message per
\* tool_result block, in block order, followed by one user message holding
\* the text blocks joined by newlines when there is a text block, and by
\* nothing otherwise
C27_ToolResultsBeforeUserText ==
    trial.converted =>
        \A i \in 1..Len(trial.request.messages) :
           LET msg == trial.request.messages[i]
               want == ToolsThenText(msg)
           IN  (~msg.isString /\ msg.role = "user") =>
                  /\ Len(trial.messages) >= Len(trial.request.messages) - 1 + Len(want)
                  /\ Len(trial.messages) <= Len(trial.request.messages) + Len(want)
                  /\ [k \in 1..Len(want) |->
                         [role |-> Segment(i)[k].role,
                          tool_call_id |-> Segment(i)[k].tool_call_id]] = want
                  /\ \A k \in 1..Len(want) :
                        want[k].role = "user" => Segment(i)[k].content = JoinedText(msg)

\* a text block, then two tool results, then a second text block
C27_Witness ==
    /\ trial.converted
    /\ trial.request.messages =
          <<BlockMessage("user", <<TextBlock(TextA),
                                   ToolResultBlocks("toolu_2", <<TextA, TextB>>),
                                   TextBlock(TextB)>>)>>
    /\ Len(trial.messages) >= 2
    /\ Last(trial.messages).role = "user"
    /\ Last(trial.messages).content = <<"a", NL, "b">>
    /\ trial.messages[Len(trial.messages) - 1].role = "tool"

AllStrings(request) == \A i \in 1..Len(request.messages) : request.messages[i].isString

RoleAndText(ms) == [i \in 1..Len(ms) |-> [role |-> ms[i].role, content |-> ms[i].content]]

ClientRoleAndText(ms) == [i \in 1..Len(ms) |-> [role |-> ms[i].role, content |-> ms[i].text]]

Translated == trial.op = "convertOpenAIToClaude" /\ trial.converted

\* the type and the id of each content block the client is to get
BlocksFor(response) ==
    LET text == IF response.hasChoice /\ response.hasMessage /\ response.content # <<>>
                THEN <<[type |-> "text", id |-> ""]>> ELSE <<>>
        tcs == IF response.hasChoice /\ response.hasMessage
               THEN response.tool_calls ELSE <<>>
        tools == [i \in 1..Len(tcs) |-> [type |-> "tool_use", id |-> tcs[i].id]]
    IN  IF text \o tools = <<>> THEN <<[type |-> "text", id |-> ""]>>
        ELSE text \o tools

TypeAndId(content) ==
    [i \in 1..Len(content) |-> [type |-> content[i].type, id |-> content[i].id]]

\* C29: the translated response always has content: a text block if the
\* backend gave text, then a tool_use block per tool call in backend order,
\* and one empty text block when the backend gave neither
C29_AlwaysOneContentBlock ==
    Translated =>
        /\ ~trial.result.threw
        /\ Len(trial.result.value.content) >= 1
        /\ TypeAndId(trial.result.value.content) = BlocksFor(trial.response)

\* the same for the responses that have a list of choices and whose tool
\* calls all carry well-formed arguments
AlwaysOneContentBlock_WellFormed ==
    (/\ Translated
     /\ trial.response.hasChoices
     /\ \A i \in 1..Len(trial.response.tool_calls) :
           trial.response.tool_calls[i].arguments # ArgsTruncated) =>
        /\ ~trial.result.threw
        /\ Len(trial.result.value.content) >= 1
        /\ TypeAndId(trial.result.value.content) = BlocksFor(trial.response)

EmptyTextBlock_Witness ==
    /\ Translated
    /\ trial.response.hasChoices
    /\ ~trial.response.hasChoice
    /\ ~trial.result.threw
    /\ trial.result.value.content = <<ClaudeText(<<>>)>>

\* ------------------------------------------------------------ stop reasons
StopReasons == {"end_turn", "max_tokens", "stop_sequence", "tool_use"}

StopReasonFor(finish) ==
    IF finish = "stop" THEN "end_turn"
    ELSE IF finish = "length" THEN "max_tokens"
    ELSE IF finish = "content_filter" THEN "stop_sequence"
    ELSE IF finish = "tool_calls" THEN "tool_use"
    ELSE "end_turn"

\* C30: the stop reason of a translated response and of the message_delta of
\* a stream is one of the four stop reasons, and is the one the table gives
\* for the backend's finish reason, end_turn when there is none or when the
\* table does not know it
C30_StopReasonClosedSet ==
    /\ (Translated /\ ~trial.result.threw) =>
          /\ trial.result.value.stop_reason \in StopReasons
          /\ trial.result.value.stop_reason =
                StopReasonFor(IF trial.response.hasChoice
                              THEN trial.response.finish_reason ELSE "null")
    /\ \A i \in 1..Len(written) :
          IsMessageDelta(written[i]) =>
             /\ written[i].stop_reason \in StopReasons
             /\ written[i].stop_reason =
                   StopReasonFor(IF ProcessedFinishReasons = <<>> THEN "null"
                                 ELSE Last(ProcessedFinishReasons))

\* a stream ended on a finish reason the table does not know
C30_Witness ==
    /\ pc = "done"
    /\ ProcessedFinishReasons # <<>>
    /\ Last(ProcessedFinishReasons) = "eos"
    /\ \E i \in 1..Len(written) :
          IsMessageDelta(written[i]) /\ written[i].stop_reason = "end_turn"

\* ------------------------------------------- tool-call arguments, buffered
HasUnreadableArguments(response) ==
    /\ response.hasChoice
    /\ response.hasMessage
    /\ \E i \in 1..Len(response.tool_calls) :
          response.tool_calls[i].arguments \in {ArgsNone, ArgsTruncated}

\* C31: a tool call whose arguments are empty or are not valid JSON is
\* translated to a tool_use block with an empty input, and the translation
\* returns
C31_BadArgumentsEmptyInput ==
    (Translated /\ HasUnreadableArguments(trial.response)) =>
        /\ ~trial.result.threw
        /\ \A k \in 1..Len(trial.result.value.content) :
              LET block == trial.result.value.content[k] IN
              (block.type = "tool_use" /\ block.id \in {"call_2", "call_3"}) =>
                  block.input = <<>>

\* the same for empty arguments alone
EmptyArgumentsEmptyInput ==
    (/\ Translated
     /\ HasUnreadableArguments(trial.response)
     /\ \A i \in 1..Len(trial.response.tool_calls) :
           trial.response.tool_calls[i].arguments # ArgsTruncated) =>
        /\ ~trial.result.threw
        /\ \A k \in 1..Len(trial.result.value.content) :
              LET block == trial.result.value.content[k] IN
              (block.type = "tool_use" /\ block.id = "call_2") => block.input = <<>>

\* ------------------------------------------------- model name and usage
\* C32: the model of a translated response and of message_start is the name
\* the client asked for, not a backend model, and the usage of a translated
\* response holds the backend's prompt and completion counts, zero for a
\* count that is missing
C32_ClientModelEchoed ==
    /\ (Translated /\ ~trial.result.threw) =>
          /\ trial.result.value.model = RequestModel
          /\ trial.result.value.model \notin Models
          /\ trial.result.value.usage.input_tokens =
                (IF trial.response.usage.hasUsage
                 THEN trial.response.usage.prompt_tokens ELSE 0)
          /\ trial.result.value.usage.output_tokens =
                (IF trial.response.usage.hasUsage
                 THEN trial.response.usage.completion_tokens ELSE 0)
    /\ \A i \in 1..Len(written) :
          IsMessageStart(written[i]) =>
             written[i].model = RequestModel /\ written[i].model \notin Models

\* a response with a prompt count and no completion count was translated
C32_Witness ==
    /\ Translated
    /\ ~trial.result.threw
    /\ trial.response.usage.hasUsage
    /\ trial.response.usage.completion_tokens = 0
    /\ trial.result.value.usage = [input_tokens |-> 7, output_tokens |-> 0]
    /\ trial.result.value.model = RequestModel

\* ------------------------------------------------- what a failed request gets
\* C33: a request that failed is answered with status 500 and an error body,
\* and not with the success status that the first write of the stream commits
C33_FailureIs500 ==
    pc = "caught" => (errorBody /\ ~HeadersSent)

\* the same for the requests that fail before the backend has answered
FailureIs500_BeforeResponse ==
    (pc = "caught" /\ ~HeadersSent) => (errorBody /\ resEnded)

FailureIs500_Witness ==
    pc = "caught" /\ ~HeadersSent /\ errorBody

\* ------------------------------------------------- backend unavailability
Refused == trial.op = "stream" /\ trial.status # 0 /\ trial.status # 200

\* C34: a streaming request whose chat-completions call the backend answered
\* with a status other than 2xx is not relayed as a completed message, and
\* one whose connection was refused gets the error body
C34_BackendFailureSurfaced ==
    /\ Refused => ~(pc = "done" /\ settled = "resolved")
    /\ (pc = "caught" /\ trial.op = "stream" /\ trial.status = 0) => errorBody

\* the same for the refused connection alone
ConnectionRefusedSurfaced ==
    (pc = "caught" /\ trial.op = "stream" /\ trial.status = 0) =>
        (errorBody /\ written = <<>>)

ConnectionRefused_Witness ==
    pc = "caught" /\ trial.op = "stream" /\ trial.status = 0 /\ errorBody

\* ------------------------------------------------------------ the sentinel
SessionVars ==
    <<pc, buffer, hasStartedTextBlock, currentBlockIndex, finishReason, toolCalls,
      hasToolCalls, inputTokens, outputTokens, written, resEnded, settled>>

SentinelSeen == \E i \in 1..Len(received) : received[i] = DoneLine

\* C35: a chunk that is the line `data: [DONE]` writes nothing and leaves the
\* session as it was, still streaming; a text line that comes after it is
\* relayed; and message_delta and message_stop are written by the end of the
\* backend stream only
C35_SentinelIgnored ==
    [][/\ (buffer = <<>> /\ received' = Append(received, DoneLine)) =>
              UNCHANGED SessionVars
       /\ (buffer = <<>> /\ SentinelSeen /\ received' = Append(received, TextHi)) =>
              (/\ Len(written') > Len(written)
               /\ Last(written') = TextDelta(0, <<"H", "i">>))
       /\ (\E i \in 1..Len(written') :
              i > Len(written) /\ (IsMessageDelta(written'[i]) \/ IsMessageStop(written'[i])))
             => (pc = "streaming" /\ pc' = "done")]_vars

\* text was relayed after the sentinel, and the stream then ended
C35_Witness ==
    /\ pc = "done"
    /\ Len(received) = 2
    /\ received[1] = DoneLine
    /\ received[2] = TextHi
    /\ \E i \in 1..Len(written) : written[i] = TextDelta(0, <<"H", "i">>)

\* ------------------------------------------------------- the one text block
IsTextStart(e) == IsStart(e) /\ e.block = "text"

TextStartAt == {n \in 1..Len(written) : IsTextStart(written[n])}

\* C36: a session has at most one text block, with index 0; every text
\* fragment received is a delta of that block, written while it is open; the
\* block is closed by the end of the backend stream only; and a tool_use
\* block of a session that has a text block has an index above 0
C36_OneTextBlockAtIndexZero ==
    /\ Cardinality(TextStartAt) <= 1
    /\ \A n \in TextStartAt : written[n].index = 0
    /\ Len(TextDeltas) = Len(ReceivedFragments)
    /\ \A n \in 1..Len(written) :
          IsTextDelta(written[n]) =>
             /\ written[n].index = 0
             /\ \E m \in TextStartAt : m < n
             /\ \A m \in 1..n : ~IsStop(written[m])
    /\ pc = "streaming" => Stops = <<>>
    /\ \A n \in 1..Len(written) :
          (IsToolStart(written[n]) /\ TextStartAt # {}) => written[n].index > 0

\* text, then a tool call, then text again, all in the block of index 0,
\* and the tool_use block after it
C36_Witness ==
    /\ pc = "done"
    /\ Len(received) = 3
    /\ received[1] = TextHi
    /\ received[2] = CatalogLine("tc1_open")
    /\ received[3] = TextHi
    /\ Len(TextDeltas) = 2
    /\ \E n \in 1..Len(written) : IsToolStart(written[n]) /\ written[n].index = 1

\* ------------------------------------------------- what is left in the buffer
\* C37: when the terminal events are written the reassembly buffer holds no
\* well-formed data line that was not processed
C37_NothingLeftUndecoded ==
    pc = "done" => ~IsJsonLine(buffer)

\* the same for the streams whose last line ends with a newline
NothingLeftUndecoded_Terminated ==
    (pc = "done" /\ Last(stream) = NL) => buffer = <<>>

NothingLeftUndecoded_Witness ==
    pc = "done" /\ Last(stream) = NL /\ buffer = <<>> /\ Len(TextDeltas) > 0

\* ------------------------------------------------- what a no-op call returns to
\* the sequence for the name was run by some call up to its warm-up request
MadeReady(modelName) ==
    \E d \in CallIds :
       /\ calls[d].ran = "started"
       /\ calls[d].modelName = modelName
       /\ (calls[d].avail = "yes" \/ calls[d].pulled = "yes")
       /\ calls[d].warmups >= 1

\* C38: when ensureModelReady has returned to a call without throwing, the
\* model was found available or was pulled, and its warm-up request was sent
C38_ReturnMeansReady ==
    \A c \in CallIds :
       EnsureReturned(calls[c]) => MadeReady(calls[c].modelName)

\* the same for the calls that ran the sequence themselves
ReturnMeansReady_Runner ==
    \A c \in CallIds :
       (calls[c].ran = "started" /\ EnsureReturned(calls[c]))
          => MadeReady(calls[c].modelName)

ReturnMeansReady_Witness ==
    \E c \in CallIds :
       /\ calls[c].ran = "started"
       /\ calls[c].pulled = "yes"
       /\ EnsureReturned(calls[c])

\* ------------------------------------------------- stop reason with tool use
ToolStarts == SelectSeq(written, IsToolStart)

\* C39: the message_delta of a session that wrote a tool_use block carries
\* the stop reason tool_use
C39_ToolUseStopReason ==
    (pc = "done" /\ ToolStarts # <<>>) =>
        \A i \in 1..Len(MessageDeltas) : MessageDeltas[i].stop_reason = "tool_use"

\* the same when the last finish reason of the backend was tool_calls
ToolUseStopReason_WhenBackendSaysSo ==
    (/\ pc = "done"
     /\ ToolStarts # <<>>
     /\ ProcessedFinishReasons # <<>>
     /\ Last(ProcessedFinishReasons) = "tool_calls") =>
        \A i \in 1..Len(MessageDeltas) : MessageDeltas[i].stop_reason = "tool_use"

ToolUseStopReason_Witness ==
    /\ pc = "done"
    /\ ToolStarts # <<>>
    /\ Len(MessageDeltas) = 1
    /\ MessageDeltas[1].stop_reason = "tool_use"

\* ------------------------------- the backend's stream and its queued events
\* stream() with the backend's side of the connection followed: "open" while
\* the body may still arrive, "ended" or "errored" once the runtime has queued
\* the 'end' or the 'error' event of upstream.  The handler of a queued event
\* runs on a later turn of the event loop, and runs to completion.  Nothing
\* makes the backend end its stream: stream() sets no timeout
InitTermination ==
    /\ pc = "connecting"
    /\ buffer = <<>>
    /\ hasStartedTextBlock = FALSE
    /\ currentBlockIndex = 0
    /\ finishReason = "end_turn"
    /\ toolCalls = <<>>
    /\ hasToolCalls = FALSE
    /\ inputTokens = 0
    /\ outputTokens = 0
    /\ written = <<>>
    /\ resEnded = FALSE
    /\ settled = "pending"
    /\ received = <<>>
    /\ stream = <<>>
    /\ pending = <<>>
    /\ NoClient
    /\ NoProvider
    /\ sessions = <<>>
    /\ trial = [op |-> "stream", upstream |-> "open"]

UpstreamIs(state) == trial.op = "stream" /\ trial.upstream = state

\* the chunks of a body with text, a tool call, a finish reason and a line
\* that is no JSON: every branch of the 'end' handler is taken
TerminationChunks ==
    {TextHi, CatalogLine("tc1_open"), CatalogLine("fin_tools"), BadJson}

\* upstream.on('data', ...) while the body arrives
UpstreamData ==
    /\ pc = "streaming"
    /\ UpstreamIs("open")
    /\ Len(received) < MaxChunks
    /\ \E chunk \in TerminationChunks :
          /\ SetSession(OnData(Session, chunk))
          /\ WriteTo(OnData(Session, chunk))
          /\ received' = Append(received, chunk)
    /\ UNCHANGED <<pc, resEnded, settled, stream, pending>>
    /\ UNCHANGED <<providerVars, otherVars>>

\* the backend finished its body, or the connection to it broke: the runtime
\* queues the event
UpstreamCloses ==
    /\ pc = "streaming"
    /\ UpstreamIs("open")
    /\ \E how \in {"ended", "errored"} : trial' = [trial EXCEPT !.upstream = how]
    /\ UNCHANGED <<pc, buffer, hasStartedTextBlock, currentBlockIndex,
                   finishReason, toolCalls, hasToolCalls, inputTokens,
                   outputTokens, written, resEnded, settled, received, stream,
                   pending, sessions>>
    /\ UNCHANGED <<gatewayVars, providerVars>>

\* upstream.on('end', ...) for the queued event
OnUpstreamEnd == UpstreamIs("ended") /\ End

\* upstream.on('error', ...) for the queued event
OnUpstreamError == UpstreamIs("errored") /\ UpstreamError

NextTermination ==
    \/ Response
    \/ RequestError
    \/ UpstreamData
    \/ UpstreamCloses
    \/ OnUpstreamEnd
    \/ OnUpstreamError

SpecTermination == InitTermination /\ [][NextTermination]_vars

\* the event loop runs the handler of every queued event
SpecTerminationFair ==
    /\ SpecTermination
    /\ WF_vars(OnUpstreamEnd)
    /\ WF_vars(OnUpstreamError)

\* ------------------------------------------------- termination of a session
Finished ==
    /\ written # <<>>
    /\ Last(written) = MessageStop
    /\ resEnded
    /\ settled = "resolved"

\* C40: once the backend's response has started, an ended backend stream
\* leads to message_stop written, the response ended and stream() resolved;
\* an upstream error leads to stream() rejected; and a settled stream()
\* keeps its outcome
C40_SessionTerminates ==
    /\ (pc = "streaming" /\ UpstreamIs("ended")) ~> Finished
    /\ (pc = "streaming" /\ UpstreamIs("errored")) ~> (settled = "rejected" /\ ~resEnded)
    /\ [][settled = "pending" \/ settled' = settled]_vars

SessionTerminates_Witness ==
    /\ UpstreamIs("ended")
    /\ pc = "done"
    /\ received # <<>>
    /\ Finished

====
